---- MODULE Spec2Model ----
(***************************************************************************)
(* Balance Aggregation & Monitoring Engine of nexus-wallet-manager.        *)
(*                                                                         *)
(* One state machine per service class; each has its own specification    *)
(* over a shared clock `now` (milliseconds, Date.now()).  Timers           *)
(* (setTimeout / setInterval) may fire at or after their due time.         *)
(*                                                                         *)
(*   SpecBatch    BatchBalanceChecker  (getBalance / processBatch / cache) *)
(*   SpecSmart    SmartBalanceChecker  (checkBalance / cache)              *)
(*   SpecCache    either of the two caching services                       *)
(*   SpecLimiter  GlobalRateLimiter    (queueRequest / processQueue)       *)
(*   SpecFifo     GlobalRateLimiter, queueRequest alone, more requests     *)
(*   SpecLive     GlobalRateLimiter, timers fire and execute() settles     *)
(*   SpecOrder    BatchBalanceChecker, one network, more calls             *)
(*   SpecDrain    BatchBalanceChecker, one network, checkBalance may reject *)
(*   SpecPace     BatchBalanceChecker, two addresses of one network        *)
(*   SpecSweep    BatchBalanceChecker with clearExpiredCache               *)
(*   SpecRetry    APIErrorHandler and BalanceChecker.checkBitcoinBalance   *)
(*   SpecQuery    BalanceChecker.checkBitcoinBalance alone                 *)
(*   SpecHandler  APIErrorHandler.analyzeError and getRetryDelay           *)
(*   SpecMany     BatchBalanceChecker.getBalancesBatch                     *)
(*   SpecWatcher  WalletWatcherService (watch / check / remove)            *)
(*   SpecPair     WalletWatcherService, two addresses and alert callbacks  *)
(*   SpecRing     WalletWatcherService over a long run of checks; export   *)
(*   SpecFan      the EVM batch queries of both balance checkers           *)
(*   SpecPortfolio PortfolioService   (summary / diversification score)    *)
(*   SpecEvm      BalanceChecker.checkEVMBalance (provider fail-over)      *)
(***************************************************************************)
EXTENDS Integers, Sequences, FiniteSets, TLC

VARIABLES
    service,          \* the service class this behaviour exercises
    now,              \* Date.now()
    batchCache,       \* BatchBalanceChecker.cache : key -> CachedBalance
    batchQueue,       \* BatchBalanceChecker.queue : chain -> QueueItem[]
    batchProcessing,  \* BatchBalanceChecker.isProcessing : chain -> boolean
    batchLoop,        \* position of the processBatch coroutine of each chain
    calls,            \* the getBalance promises handed to callers, in call order
    netCount,         \* BalanceChecker.checkBalance invocations per key
    smartCache,       \* SmartBalanceChecker.cache : key -> {result, expires}
    smartCalls,       \* the SmartBalanceChecker.checkBalance promises, in call order
    smartNet,         \* provider requests issued by SmartBalanceChecker per key
    rlQueue,          \* GlobalRateLimiter.queue (request ids)
    rlProcessing,     \* GlobalRateLimiter.isProcessing
    lastApiCall,      \* GlobalRateLimiter.lastApiCall : apiName -> time (0: no entry)
    rlWorker,         \* position of the processQueue coroutine
    requests,         \* the queueRequest promises, in call order
    rlLastStart,      \* per apiName, when its latest execute() was started (0: never)
    rlLastFail,       \* per apiName, when its latest rate-limit rejection was caught (0: never)
    btc,              \* position of the checkBitcoinBalance query in progress
    btcAttempts,      \* per endpoint of the query: fatal classification seen, requests after
                      \* it, whether it was called, whether its retries were stopped
    policy,           \* the latest APIErrorHandler.shouldRetry call: arguments and result
    many,             \* the BatchBalanceChecker.getBalancesBatch call in progress
    wObjs,            \* the WatchedAddress objects created by addWatchAddress
    watchedAddresses, \* WalletWatcherService.watchedAddresses : id -> object (0: no entry)
    balanceHistory,   \* WalletWatcherService.balanceHistory : id -> entries (<<>>: no entry)
    alerts,           \* WalletWatcherService.alerts
    alertCallbacks,   \* WalletWatcherService.alertCallbacks
    checkIntervals,   \* WalletWatcherService.checkIntervals : id -> timer handle (0: no entry)
    timers,           \* the live setInterval timers: handle, object, period
    timerCount,       \* timer handles handed out so far
    checks,           \* the checkBalance invocations, in call order
    removed,          \* ids removed and not added again since
    fan,              \* the EVM batch query in progress: provider calls issued and in flight
    ring,             \* a long run of checks: schedule, history and alerts kept, all ever appended
    csv,              \* the latest exportHistoryToCsv call: its argument and the text returned
    pf,               \* PortfolioService: the wallets given, the summary and the stats made of them
    evmProviders,     \* BalanceChecker.providers : chain -> provider ("-": no entry)
    evm,              \* the checkEVMBalance call in progress, and how the latest one ended
    handler           \* the latest call of APIErrorHandler.analyzeError or getRetryDelay

batchVars == <<batchCache, batchQueue, batchProcessing, batchLoop, calls, netCount>>
smartVars == <<smartCache, smartCalls, smartNet>>
limiterVars == <<rlQueue, rlProcessing, lastApiCall, rlWorker, requests, rlLastStart,
                 rlLastFail>>
retryVars == <<btc, btcAttempts, policy>>
watcherVars == <<wObjs, watchedAddresses, balanceHistory, alerts, alertCallbacks,
                 checkIntervals, timers, timerCount, checks, removed>>
\* the state of the services modelled by a single variable
fanVars == <<fan>>
ringVars == <<ring, csv>>
portfolioVars == <<pf>>
evmVars == <<evmProviders, evm>>
handlerVars == <<handler>>
vars == <<service, now, batchVars, smartVars, limiterVars, retryVars, many, watcherVars,
          fanVars, ringVars, portfolioVars, evmVars, handlerVars>>

\* what the steps of one service leave alone: the state of the others
batchFrame == <<service, smartVars, limiterVars, retryVars, many, watcherVars, fanVars, ringVars, portfolioVars, evmVars, handlerVars>>
smartFrame == <<service, batchVars, limiterVars, retryVars, many, watcherVars, fanVars, ringVars, portfolioVars, evmVars, handlerVars>>
limiterFrame == <<service, batchVars, smartVars, retryVars, many, watcherVars, fanVars, ringVars, portfolioVars, evmVars, handlerVars>>
retryFrame == <<service, now, batchVars, smartVars, limiterVars, many, watcherVars,
                fanVars, ringVars, portfolioVars, evmVars, handlerVars>>
manyFrame == <<service, now, batchQueue, batchProcessing, batchLoop, calls, netCount,
               smartVars, limiterVars, retryVars, watcherVars, fanVars, ringVars, portfolioVars, evmVars, handlerVars>>
watcherFrame == <<service, now, batchVars, smartVars, limiterVars, retryVars, many,
                  fanVars, ringVars, portfolioVars, evmVars, handlerVars>>
fanFrame == <<service, now, batchVars, smartVars, limiterVars, retryVars, many,
              watcherVars, ringVars, portfolioVars, evmVars, handlerVars>>
ringFrame == <<service, batchVars, smartVars, limiterVars, retryVars, many, watcherVars,
               fanVars, portfolioVars, evmVars, handlerVars>>
portfolioFrame == <<service, now, batchVars, smartVars, limiterVars, retryVars, many,
                    watcherVars, fanVars, ringVars, evmVars, handlerVars>>
evmFrame == <<service, now, batchVars, smartVars, limiterVars, retryVars, many,
              watcherVars, fanVars, ringVars, portfolioVars, handlerVars>>
handlerFrame == <<service, now, batchVars, smartVars, limiterVars, retryVars, many,
                  watcherVars, fanVars, ringVars, portfolioVars, evmVars>>

-----------------------------------------------------------------------------
(* Bounds of the model *)

Epoch == 200000        \* value of Date.now() when the services are loaded
MaxTime == 545000      \* the clock of SpecBatch stops here
SmartMaxTime == 800000 \* the clock of SpecSmart stops here
LimiterMaxTime == 350000 \* the clock of SpecLimiter stops here
MaxRequests == 2       \* queueRequest invocations
MaxFifoRequests == 3   \* queueRequest invocations of SpecFifo
MaxLiveRequests == 2   \* queueRequest invocations of SpecLive
MaxCalls == 3          \* getBalance invocations
MaxOrderCalls == 5     \* getBalance invocations of SpecOrder
MaxDrainCalls == 3     \* getBalance invocations of SpecDrain
MaxPaceCalls == 3      \* getBalance invocations of SpecPace
DrainMaxTime == 212000 \* the clock of SpecDrain stops here
MaxAttemptNumber == 3  \* largest attemptNumber handed to shouldRetry
MaxDelayAttempt == 5   \* largest attemptNumber handed to getRetryDelay
MaxCap == 3            \* largest maxAttempts handed to shouldRetry
MaxBatchLen == 3       \* longest request list handed to getBalancesBatch
MaxAdds == 1           \* addWatchAddress invocations
MaxTimers == 2         \* setInterval invocations
MaxChecks == 2         \* WalletWatcherService.checkBalance invocations
MaxPairAdds == 2       \* addWatchAddress invocations of SpecPair
MaxPairChecks == 3     \* WalletWatcherService.checkBalance invocations of SpecPair
MaxCallbacks == 1      \* onAlert invocations
MaxAddresses == 11     \* most addresses of one EVM network in a batch query
MaxAppends == 204      \* checkBalance invocations of SpecRing
MaxWallets == 6        \* most wallets handed to generatePortfolioSummary
MaxTokens == 11        \* most tokens held by a wallet

Min(a, b) == IF a < b THEN a ELSE b
Max(a, b) == IF a > b THEN a ELSE b
\* Math.pow(2, n) for the exponents that occur
RECURSIVE Pow2(_)
Pow2(n) == IF n <= 0 THEN 1 ELSE 2 * Pow2(n - 1)

-----------------------------------------------------------------------------
(* BatchBalanceChecker *)

CACHE_TTL == 300000
BATCH_SIZE == 3
BATCH_DELAY == 3000
RATE_LIMIT_DELAY == 1500
ERROR_TTL == 30000

Chains == {"BTC", "ETH"}
Addresses == {"a1"}
\* the cache keys `${chain}:${address}`
Keys == Chains \X Addresses
\* the keys of SpecPace: two addresses of one network
PaceKeys == {<<"BTC", "a1">>, <<"BTC", "a2">>}
AllKeys == Keys \cup PaceKeys

\* the behaviours that exercise getBalance: on every network, with more calls
\* on one network, on one network with checkBalance rejecting at times, or
\* for two addresses of one network, or with the cache swept at times
BatchServices == {"batch", "order", "drain", "pace", "sweep"}

\* how many getBalance calls a behaviour makes
CallBound ==
    IF service = "order" THEN MaxOrderCalls
    ELSE IF service = "drain" THEN MaxDrainCalls
    ELSE IF service = "pace" THEN MaxPaceCalls ELSE MaxCalls

\* the keys getBalance is called with
CalledKeys ==
    IF service \in {"order", "drain"} THEN {<<"BTC", "a1">>}
    ELSE IF service = "pace" THEN PaceKeys ELSE Keys

NoEntry == [none |-> TRUE]
NoResult == [none |-> TRUE]
\* `retry` is the counter of the retry loop, `failedAt` when the latest
\* attempt for the item in hand was seen to fail (0: none has), `finishedAt`
\* when the network's latest item was settled (0: none was)
IdleLoop ==
    [pc |-> "idle", batch |-> <<>>, i |-> 0, wakeAt |-> 0, retry |-> 0, failedAt |-> 0,
     finishedAt |-> 0]

\* the steps by which the clock advances
BatchTickSteps == {RATE_LIMIT_DELAY, ERROR_TTL, CACHE_TTL}

\* (mutant) the entry is still served at the instant its TTL has elapsed
CacheValid_Inclusive(cached, t) == t - cached.timestamp <= cached.ttl

\* getBalance line 36: the entry is served iff Date.now() - timestamp < ttl
CacheValid(cached, t) == t - cached.timestamp < cached.ttl

\* (mutant) failures are cached as long as successes
ResultTtl_Uniform(result) == CACHE_TTL

\* cacheResult line 262: errors live 30 s, successes CACHE_TTL
ResultTtl(result) == IF result.error THEN ERROR_TTL ELSE CACHE_TTL

cacheResult(c, key, result, t) ==
    [c EXCEPT ![key] = [result |-> result, timestamp |-> t, ttl |-> ResultTtl(result)]]

\* BalanceChecker.checkBalance catches every failure of the chain-specific
\* checker and returns a BalanceResult carrying `error`; it does not throw.
CheckBalanceOutcomes == {"ok", "error"}

\* a BalanceResult; `serial` stands for the identity of the object
MakeResult(key, outcome, serial) ==
    [key |-> key, error |-> (outcome = "error"), serial |-> serial]

TotalNet == LET RECURSIVE Sum(_)
                Sum(S) == IF S = {} THEN 0
                          ELSE LET k == CHOOSE x \in S : TRUE
                               IN netCount[k] + Sum(S \ {k})
            IN Sum(AllKeys)

\* processBatch lines 70-71 and 76-91: take the next batch off the queue and
\* issue BalanceChecker.checkBalance for its first item (runs synchronously
\* up to the first await)
TakeBatch(ch, q) ==
    LET n == Min(BATCH_SIZE, Len(q))
        batch == SubSeq(q, 1, n)
    IN /\ batchQueue' = [batchQueue EXCEPT ![ch] = SubSeq(q, n + 1, Len(q))]
       /\ batchLoop' = [batchLoop EXCEPT ![ch] =
                           [pc |-> "call", batch |-> batch, i |-> 1, wakeAt |-> 0,
                            retry |-> 0, failedAt |-> 0,
                            finishedAt |-> batchLoop[ch].finishedAt]]
       /\ netCount' = [netCount EXCEPT ![batch[1].key] = @ + 1]

\* what the caller found in the cache (kept for the record of the call):
\* nothing, a success or a failure, and how old
SeenKind(cached, t) ==
    IF cached = NoEntry THEN <<"none", "-">>
    ELSE <<IF cached.result.error THEN "error" ELSE "ok",
           IF t - cached.timestamp >= CACHE_TTL THEN "old"
           ELSE IF t - cached.timestamp >= ERROR_TTL THEN "mid" ELSE "fresh">>

\* (mutant) the item is put at the front of the network's queue
push_Front(q, item) == <<item>> \o q

\* getBalance lines 49-54: the item is pushed at the end of the network's queue
push(q, item) == Append(q, item)

\* getBalance(chain, address)
GetBalance(ch, ad) ==
    /\ service \in BatchServices
    /\ UNCHANGED batchFrame
    /\ Len(calls) < CallBound
    /\ <<ch, ad>> \in CalledKeys
    /\ LET key == <<ch, ad>>
           cached == batchCache[key]
           id == Len(calls) + 1
           overlap == {c \in 1..Len(calls) :
                          calls[c].key = key /\ calls[c].status = "pending"}
       IN IF cached # NoEntry /\ CacheValid(cached, now)
          THEN /\ calls' = Append(calls,
                      [key |-> key, hit |-> TRUE, seen |-> SeenKind(cached, now),
                       overlap |-> overlap,
                       status |-> "resolved", result |-> cached.result])
               /\ UNCHANGED <<batchCache, batchQueue, batchProcessing, batchLoop, netCount>>
          ELSE /\ calls' = Append(calls,
                      [key |-> key, hit |-> FALSE, seen |-> SeenKind(cached, now),
                       overlap |-> overlap,
                       status |-> "pending", result |-> NoResult])
               /\ LET q == push(batchQueue[ch], [key |-> key, call |-> id])
                  IN IF ~batchProcessing[ch]
                     THEN /\ batchProcessing' = [batchProcessing EXCEPT ![ch] = TRUE]
                          /\ TakeBatch(ch, q)
                     ELSE /\ batchQueue' = [batchQueue EXCEPT ![ch] = q]
                          /\ UNCHANGED <<batchProcessing, batchLoop, netCount>>
               /\ UNCHANGED batchCache
    /\ UNCHANGED now

\* (mutant) the drain loop ends after one batch, whatever is queued
hasItems_Never(q) == FALSE

\* processBatch lines 70 and 125: this.queue.get(queueKey)!.length > 0
hasItems(q) == Len(q) > 0

\* processBatch lines 91-128: checkBalance returned for batch[i]
CheckBalanceReturns(ch, outcome) ==
    /\ service \in BatchServices
    /\ UNCHANGED batchFrame
    /\ batchLoop[ch].pc = "call"
    /\ LET lp == batchLoop[ch]
           item == lp.batch[lp.i]
           result == MakeResult(item.key, outcome, TotalNet)
       IN /\ batchCache' = cacheResult(batchCache, item.key, result, now)
          /\ calls' = [calls EXCEPT ![item.call].status = "resolved",
                                    ![item.call].result = result]
          /\ IF lp.i < Len(lp.batch)
             THEN /\ batchLoop' = [batchLoop EXCEPT ![ch].pc = "itemDelay",
                                                    ![ch].wakeAt = now + RATE_LIMIT_DELAY,
                                                    ![ch].finishedAt = now]
                  /\ UNCHANGED batchProcessing
             ELSE IF hasItems(batchQueue[ch])
             THEN /\ batchLoop' = [batchLoop EXCEPT ![ch].pc = "batchDelay",
                                                    ![ch].wakeAt = now + BATCH_DELAY,
                                                    ![ch].finishedAt = now]
                  /\ UNCHANGED batchProcessing
             ELSE /\ batchLoop' = [batchLoop EXCEPT ![ch] =
                                      [IdleLoop EXCEPT !.finishedAt = now]]
                  /\ batchProcessing' = [batchProcessing EXCEPT ![ch] = FALSE]
    /\ UNCHANGED <<now, batchQueue, netCount>>

\* processBatch lines 119-121 then 76-91 for the next item of the batch
ItemDelayElapsed(ch) ==
    /\ service \in BatchServices
    /\ UNCHANGED batchFrame
    /\ batchLoop[ch].pc = "itemDelay"
    /\ now >= batchLoop[ch].wakeAt
    /\ LET lp == batchLoop[ch]
       IN /\ batchLoop' = [batchLoop EXCEPT ![ch].pc = "call", ![ch].i = lp.i + 1,
                                              ![ch].retry = 0, ![ch].failedAt = 0]
          /\ netCount' = [netCount EXCEPT ![lp.batch[lp.i + 1].key] = @ + 1]
    /\ UNCHANGED <<now, batchCache, batchQueue, batchProcessing, calls>>

\* processBatch lines 125-128 then the loop head at line 70
BatchDelayElapsed(ch) ==
    /\ service \in BatchServices
    /\ UNCHANGED batchFrame
    /\ batchLoop[ch].pc = "batchDelay"
    /\ now >= batchLoop[ch].wakeAt
    /\ IF hasItems(batchQueue[ch])
       THEN /\ TakeBatch(ch, batchQueue[ch])
            /\ UNCHANGED batchProcessing
       ELSE /\ batchLoop' = [batchLoop EXCEPT ![ch] =
                                [IdleLoop EXCEPT !.finishedAt = batchLoop[ch].finishedAt]]
            /\ batchProcessing' = [batchProcessing EXCEPT ![ch] = FALSE]
            /\ UNCHANGED <<batchQueue, netCount>>
    /\ UNCHANGED <<now, batchCache, calls>>

\* a delay of some drain loop is running
DelayPending ==
    \E ch \in Chains : /\ batchLoop[ch].pc \in {"itemDelay", "batchDelay"}
                       /\ now < batchLoop[ch].wakeAt

\* some cache entry is younger than d
EntryYounger(d) == \E k \in AllKeys : batchCache[k] # NoEntry /\ now - batchCache[k].timestamp < d

\* time passes.  The clock is observed only through the delays of the drain
\* loops and the age of the cache entries, so it advances by a delay while
\* one is running and by a TTL while an entry younger than the TTL exists.
BatchTick(d) ==
    /\ service \in BatchServices
    /\ UNCHANGED batchFrame
    /\ now + d <= MaxTime
    /\ IF d = RATE_LIMIT_DELAY THEN DelayPending ELSE EntryYounger(d)
    /\ now' = now + d
    /\ UNCHANGED batchVars

\* processBatch, when BalanceChecker.checkBalance rejects.  (checkBalance
\* turns the failures of the chain-specific checkers into results; it
\* rejects when reading error.message at its line 116 throws.)

MAX_RETRIES == 2
EXPONENTIAL_BACKOFF_BASE == 1000

\* what checkBalance rejects with
ThrownErrors == {"Cannot read properties of undefined", "request timeout"}

\* batchIsRateLimitError: the message holds 'rate limit', 'too many requests',
\* '429', 'timeout' or 'throttled', or the code is 429 or 'NETWORK_ERROR'
batchIsRateLimitError(error) == error \in {"request timeout"}

\* (mutant) the same delay before every retry
backoffDelay_Flat(retry) == EXPONENTIAL_BACKOFF_BASE

\* processBatch line 86
backoffDelay(retry) == EXPONENTIAL_BACKOFF_BASE * Pow2(retry - 1)

\* processBatch lines 119-131 after batch[i] was rejected
NextItem(ch, lp) ==
    IF lp.i < Len(lp.batch)
    THEN /\ batchLoop' = [batchLoop EXCEPT ![ch] =
                [lp EXCEPT !.pc = "itemDelay", !.wakeAt = now + RATE_LIMIT_DELAY,
                           !.finishedAt = now]]
         /\ UNCHANGED batchProcessing
    ELSE IF hasItems(batchQueue[ch])
    THEN /\ batchLoop' = [batchLoop EXCEPT ![ch] =
                [lp EXCEPT !.pc = "batchDelay", !.wakeAt = now + BATCH_DELAY,
                           !.finishedAt = now]]
         /\ UNCHANGED batchProcessing
    ELSE /\ batchLoop' = [batchLoop EXCEPT ![ch] = [IdleLoop EXCEPT !.finishedAt = now]]
         /\ batchProcessing' = [batchProcessing EXCEPT ![ch] = FALSE]

\* processBatch lines 83 and 112-116: the retry loop goes round, or gives
\* the item up and rejects its promise
AttemptFailed(ch, lp) ==
    IF lp.retry + 1 <= MAX_RETRIES
    THEN /\ batchLoop' = [batchLoop EXCEPT ![ch] =
                [lp EXCEPT !.pc = "backoff", !.retry = @ + 1,
                           !.wakeAt = now + backoffDelay(lp.retry + 1)]]
         /\ UNCHANGED <<batchProcessing, calls>>
    ELSE /\ calls' = [calls EXCEPT ![lp.batch[lp.i].call].status = "rejected"]
         /\ NextItem(ch, lp)

\* processBatch lines 100-108: checkBalance rejected for batch[i]
CheckBalanceThrows(ch, error) ==
    /\ service = "drain"
    /\ UNCHANGED batchFrame
    /\ batchLoop[ch].pc = "call"
    /\ LET lp == [batchLoop[ch] EXCEPT !.failedAt = now]
       IN  IF batchIsRateLimitError(error)
           THEN /\ batchLoop' = [batchLoop EXCEPT ![ch] =
                       [lp EXCEPT !.pc = "rateLimitDelay",
                                  !.wakeAt = now + RATE_LIMIT_DELAY * 2]]
                /\ UNCHANGED <<batchProcessing, calls>>
           ELSE AttemptFailed(ch, lp)
    /\ UNCHANGED <<now, batchCache, batchQueue, netCount>>

\* processBatch line 107 has waited
RateLimitDelayElapsed(ch) ==
    /\ service = "drain"
    /\ UNCHANGED batchFrame
    /\ batchLoop[ch].pc = "rateLimitDelay"
    /\ now >= batchLoop[ch].wakeAt
    /\ AttemptFailed(ch, batchLoop[ch])
    /\ UNCHANGED <<now, batchCache, batchQueue, netCount>>

\* processBatch line 88 has waited: the next attempt is issued (line 91)
BackoffElapsed(ch) ==
    /\ service = "drain"
    /\ UNCHANGED batchFrame
    /\ batchLoop[ch].pc = "backoff"
    /\ now >= batchLoop[ch].wakeAt
    /\ batchLoop' = [batchLoop EXCEPT ![ch].pc = "call"]
    /\ netCount' = [netCount EXCEPT ![batchLoop[ch].batch[batchLoop[ch].i].key] = @ + 1]
    /\ UNCHANGED <<now, batchCache, batchQueue, batchProcessing, calls>>

\* by how much a timer of SpecDrain fires late
DrainLateness == {0, 500}

\* a delay of the drain loop is running
DrainDelayPending ==
    \E ch \in Chains : /\ batchLoop[ch].pc \in {"itemDelay", "batchDelay", "backoff",
                                                "rateLimitDelay"}
                       /\ now < batchLoop[ch].wakeAt

\* when the earliest of the running delays is due
NextWake ==
    LET due == {batchLoop[ch].wakeAt : ch \in {c \in Chains : now < batchLoop[c].wakeAt}}
    IN  CHOOSE t \in due : \A u \in due : t <= u

\* time passes until a running delay is due, or somewhat longer
DrainTick(late) ==
    /\ service = "drain"
    /\ UNCHANGED batchFrame
    /\ DrainDelayPending
    /\ NextWake + late <= DrainMaxTime
    /\ now' = NextWake + late
    /\ UNCHANGED batchVars

DrainNext ==
    \/ \E k \in AllKeys : GetBalance(k[1], k[2])
    \/ \E ch \in Chains, o \in CheckBalanceOutcomes : CheckBalanceReturns(ch, o)
    \/ \E ch \in Chains, error \in ThrownErrors : CheckBalanceThrows(ch, error)
    \/ \E ch \in Chains : RateLimitDelayElapsed(ch)
    \/ \E ch \in Chains : BackoffElapsed(ch)
    \/ \E ch \in Chains : ItemDelayElapsed(ch)
    \/ \E ch \in Chains : BatchDelayElapsed(ch)
    \/ \E late \in DrainLateness : DrainTick(late)

\* clearExpiredCache lines 275-280: the cache after a sweep at time t
clearExpiredCache(c, t) ==
    [k \in DOMAIN c |->
        IF c[k] # NoEntry /\ t - c[k].timestamp > c[k].ttl THEN NoEntry ELSE c[k]]

\* clearExpiredCache()
ClearExpiredCache ==
    /\ service = "sweep"
    /\ UNCHANGED batchFrame
    /\ batchCache' = clearExpiredCache(batchCache, now)
    /\ UNCHANGED <<now, batchQueue, batchProcessing, batchLoop, calls, netCount>>

\* getCacheStats() at time t
getCacheStats(c, t) ==
    LET total == Cardinality({k \in DOMAIN c : c[k] # NoEntry})
        valid == Cardinality({k \in DOMAIN c : c[k] # NoEntry /\ t - c[k].timestamp < c[k].ttl})
    IN [total |-> total, valid |-> valid, expired |-> total - valid]

SweepNext ==
    \/ \E k \in AllKeys : GetBalance(k[1], k[2])
    \/ \E ch \in Chains, o \in CheckBalanceOutcomes : CheckBalanceReturns(ch, o)
    \/ \E ch \in Chains : ItemDelayElapsed(ch)
    \/ \E ch \in Chains : BatchDelayElapsed(ch)
    \/ \E d \in BatchTickSteps : BatchTick(d)
    \/ ClearExpiredCache

BatchInit ==
    /\ batchCache = [k \in AllKeys |-> NoEntry]
    /\ batchQueue = [ch \in Chains |-> <<>>]
    /\ batchProcessing = [ch \in Chains |-> FALSE]
    /\ batchLoop = [ch \in Chains |-> IdleLoop]
    /\ calls = <<>>
    /\ netCount = [k \in AllKeys |-> 0]

BatchNext ==
    \/ \E k \in AllKeys : GetBalance(k[1], k[2])
    \/ \E ch \in Chains, o \in CheckBalanceOutcomes : CheckBalanceReturns(ch, o)
    \/ \E ch \in Chains : ItemDelayElapsed(ch)
    \/ \E ch \in Chains : BatchDelayElapsed(ch)
    \/ \E d \in BatchTickSteps : BatchTick(d)

-----------------------------------------------------------------------------
(* SmartBalanceChecker *)

SMART_CACHE_DURATION == 600000

\* the provider request of checkEVMBalance / checkBitcoinBalance either
\* yields a balance or throws (caught at checkBalance line 96)
SmartOutcomes == {"ok", "throw"}

SmartTickSteps == {CACHE_TTL, SMART_CACHE_DURATION}

\* checkBalance line 27: served iff Date.now() < expires
SmartValid(cached, t) == t < cached.expires

SmartSeen(cached, t) ==
    IF cached = NoEntry THEN "none"
    ELSE IF t - cached.storedAt >= SMART_CACHE_DURATION THEN "old" ELSE "fresh"

TotalSmartNet == LET RECURSIVE Sum(_)
                     Sum(S) == IF S = {} THEN 0
                               ELSE LET k == CHOOSE x \in S : TRUE
                                    IN smartNet[k] + Sum(S \ {k})
                 IN Sum(Keys)

\* checkBalance lines 22-66: cache check, else the provider request is sent
SmartCheckBalance(key) ==
    /\ service = "smart"
    /\ UNCHANGED smartFrame
    /\ Len(smartCalls) < MaxCalls
    /\ LET cached == smartCache[key]
       IN IF cached # NoEntry /\ SmartValid(cached, now)
          THEN /\ smartCalls' = Append(smartCalls,
                      [key |-> key, hit |-> TRUE, seen |-> SmartSeen(cached, now),
                       status |-> "resolved", result |-> cached.result])
               /\ UNCHANGED smartNet
          ELSE /\ smartCalls' = Append(smartCalls,
                      [key |-> key, hit |-> FALSE, seen |-> SmartSeen(cached, now),
                       status |-> "pending", result |-> NoResult])
               /\ smartNet' = [smartNet EXCEPT ![key] = @ + 1]
    /\ UNCHANGED <<now, smartCache>>

\* checkBalance lines 86-107: the provider request settled
SmartRequestSettles(c, outcome) ==
    /\ service = "smart"
    /\ UNCHANGED smartFrame
    /\ c \in 1..Len(smartCalls)
    /\ smartCalls[c].status = "pending"
    /\ LET key == smartCalls[c].key
           result == MakeResult(key, IF outcome = "ok" THEN "ok" ELSE "error",
                                TotalSmartNet + c)
       IN /\ smartCache' = IF outcome = "ok"
                           THEN [smartCache EXCEPT ![key] =
                                   [result |-> result, storedAt |-> now,
                                    expires |-> now + SMART_CACHE_DURATION]]
                           ELSE smartCache
          /\ smartCalls' = [smartCalls EXCEPT ![c].status = "resolved",
                                              ![c].result = result]
    /\ UNCHANGED <<now, smartNet>>

\* time passes while an entry has not expired
SmartTick(d) ==
    /\ service = "smart"
    /\ UNCHANGED smartFrame
    /\ now + d <= SmartMaxTime
    /\ \E k \in Keys : smartCache[k] # NoEntry /\ SmartValid(smartCache[k], now)
    /\ now' = now + d
    /\ UNCHANGED smartVars

SmartInit ==
    /\ smartCache = [k \in Keys |-> NoEntry]
    /\ smartCalls = <<>>
    /\ smartNet = [k \in Keys |-> 0]

SmartNext ==
    \/ \E k \in Keys : SmartCheckBalance(k)
    \/ \E c \in 1..MaxCalls, o \in SmartOutcomes : SmartRequestSettles(c, o)
    \/ \E d \in SmartTickSteps : SmartTick(d)

-----------------------------------------------------------------------------
(* GlobalRateLimiter *)

MIN_DELAY_BETWEEN_CALLS == 5000
MIN_DELAY_PER_API == 15000
RATE_LIMIT_COOLDOWN == 120000

Apis == {"P", "Q"}

\* the behaviours that exercise the limiter: with every public method, or
\* with more requests and queueRequest alone
LimiterServices == {"limiter", "fifo", "live"}

\* how many requests a behaviour makes
RequestBound ==
    IF service = "fifo" THEN MaxFifoRequests
    ELSE IF service = "live" THEN MaxLiveRequests ELSE MaxRequests

\* execute() resolves, rejects with a rate-limit error (429) or rejects otherwise
ExecOutcomes == {"ok", "rateLimit", "error"}

IdleWorker == [pc |-> "idle", req |-> 0, at |-> 0, wakeAt |-> 0]

\* getLastCallTime: Math.max(...Object.values(lastApiCall), 0)
getLastCallTime(l) ==
    LET RECURSIVE MaxOf(_)
        MaxOf(S) == IF S = {} THEN 0
                    ELSE LET a == CHOOSE x \in S : TRUE
                         IN Max(l[a], MaxOf(S \ {a}))
    IN MaxOf(Apis)

\* (mutant) a rate-limit rejection is not recognised
isRateLimitError_Never(outcome) == FALSE

\* isRateLimitError
isRateLimitError(outcome) == outcome = "rateLimit"

\* (mutant) the cooldown lasts a minute
cooldownUntil_Minute(t) == t + 60000

\* processQueue lines 100 and 103: when the cooldown begun at t is over
cooldownUntil(t) == t + RATE_LIMIT_COOLDOWN

\* (mutant) the per-API gap is taken to be the global gap
ApiWaitTime_GlobalGap(nowAt, last) ==
    IF nowAt - last < MIN_DELAY_BETWEEN_CALLS
    THEN MIN_DELAY_BETWEEN_CALLS - (nowAt - last) ELSE 0

\* processQueue lines 66-72: the wait for this API, 0 when none is needed
ApiWaitTime(nowAt, last) ==
    IF nowAt - last < MIN_DELAY_PER_API
    THEN MIN_DELAY_PER_API - (nowAt - last) ELSE 0

\* processQueue lines 58-63: the wait for the global gap, 0 when none is needed
GlobalWaitTime(nowAt, l) ==
    IF nowAt - getLastCallTime(l) < MIN_DELAY_BETWEEN_CALLS
    THEN MIN_DELAY_BETWEEN_CALLS - (nowAt - getLastCallTime(l)) ELSE 0

\* processQueue lines 74-81: record the call time and start execute()
BeginExecute(reqs, r, nowAt) ==
    LET api == reqs[r].api
    IN /\ lastApiCall' = [lastApiCall EXCEPT ![api] = now]
       /\ rlLastStart' = [rlLastStart EXCEPT ![api] = now]
       /\ rlWorker' = [pc |-> "exec", req |-> r, at |-> nowAt, wakeAt |-> 0]
       /\ requests' = [reqs EXCEPT ![r].status = "executing"]

\* processQueue lines 65-81: `nowAt` is the time read when r was dequeued
CheckApi(reqs, r, nowAt) ==
    LET wait == ApiWaitTime(nowAt, lastApiCall[reqs[r].api])
    IN IF wait > 0
       THEN /\ rlWorker' = [pc |-> "apiWait", req |-> r, at |-> nowAt, wakeAt |-> now + wait]
            /\ requests' = [reqs EXCEPT ![r].status = "waiting"]
            /\ UNCHANGED <<lastApiCall, rlLastStart>>
       ELSE BeginExecute(reqs, r, nowAt)

\* (mutant) processQueue starts a loop whenever the queue is not empty
processQueueReturns_EmptyOnly(processing, q) == Len(q) = 0

\* processQueue line 47: the call returns without starting a worker loop
processQueueReturns(processing, q) == processing \/ Len(q) = 0

\* (mutant) the newest request is taken from the queue
shift_Newest(q) == [request |-> q[Len(q)], rest |-> SubSeq(q, 1, Len(q) - 1)]

\* processQueue line 54: queue.shift() takes the oldest request
shift(q) == [request |-> Head(q), rest |-> Tail(q)]

\* processQueue lines 53-63 and 110: the head of the while loop
LoopHead(reqs, q) ==
    IF Len(q) = 0
    THEN /\ rlProcessing' = FALSE
         /\ rlWorker' = IdleWorker
         /\ rlQueue' = q
         /\ requests' = reqs
         /\ UNCHANGED <<lastApiCall, rlLastStart>>
    ELSE LET r == shift(q).request
             wait == GlobalWaitTime(now, lastApiCall)
         IN /\ rlProcessing' = TRUE
            /\ rlQueue' = shift(q).rest
            /\ IF wait > 0
               THEN /\ rlWorker' = [pc |-> "globalWait", req |-> r, at |-> now,
                                    wakeAt |-> now + wait]
                    /\ requests' = [reqs EXCEPT ![r].status = "waiting"]
                    /\ UNCHANGED <<lastApiCall, rlLastStart>>
               ELSE CheckApi(reqs, r, now)

\* `during` is where the worker loop stood when the request was queued
\* (SpecLive alone keeps it)
NewRequest(api) ==
    [api |-> api, status |-> "queued", atClear |-> "-",
     during |-> IF service = "live" THEN rlWorker.pc ELSE "-"]

\* queueRequest(apiName, requestFunction)
QueueRequest(api) ==
    /\ service \in LimiterServices
    /\ UNCHANGED limiterFrame
    /\ Len(requests) < RequestBound
    /\ LET reqs == Append(requests, NewRequest(api))
           q == Append(rlQueue, Len(requests) + 1)
       IN IF processQueueReturns(rlProcessing, q)
          THEN /\ rlQueue' = q
               /\ requests' = reqs
               /\ UNCHANGED <<rlProcessing, lastApiCall, rlWorker, rlLastStart>>
          ELSE LoopHead(reqs, q)
    /\ UNCHANGED <<now, rlLastFail>>

\* processQueue line 62 returned
GlobalWaitElapsed ==
    /\ service \in LimiterServices
    /\ UNCHANGED limiterFrame
    /\ rlWorker.pc = "globalWait"
    /\ now >= rlWorker.wakeAt
    /\ CheckApi(requests, rlWorker.req, rlWorker.at)
    /\ UNCHANGED <<now, rlQueue, rlProcessing, rlLastFail>>

\* processQueue line 71 returned
ApiWaitElapsed ==
    /\ service \in LimiterServices
    /\ UNCHANGED limiterFrame
    /\ rlWorker.pc = "apiWait"
    /\ now >= rlWorker.wakeAt
    /\ BeginExecute(requests, rlWorker.req, rlWorker.at)
    /\ UNCHANGED <<now, rlQueue, rlProcessing, rlLastFail>>

\* processQueue lines 81-107: execute() settled
ExecuteSettles(outcome) ==
    /\ service \in LimiterServices
    /\ UNCHANGED limiterFrame
    /\ rlWorker.pc = "exec"
    /\ LET r == rlWorker.req
           api == requests[r].api
       IN IF outcome = "ok"
          THEN LET reqs == [requests EXCEPT ![r].status = "resolved"]
               IN IF Len(rlQueue) > 0
                  THEN /\ rlWorker' = [rlWorker EXCEPT !.pc = "mandatory",
                                          !.wakeAt = now + MIN_DELAY_BETWEEN_CALLS]
                       /\ requests' = reqs
                       /\ UNCHANGED <<rlQueue, rlProcessing, lastApiCall, rlLastStart>>
                  ELSE LoopHead(reqs, rlQueue)
          ELSE IF isRateLimitError(outcome)
          THEN /\ lastApiCall' = [lastApiCall EXCEPT ![api] = cooldownUntil(now)]
               /\ rlWorker' = [rlWorker EXCEPT !.pc = "cooldown",
                                  !.wakeAt = cooldownUntil(now)]
               /\ requests' = [requests EXCEPT ![r].status = "failing"]
               /\ UNCHANGED <<rlQueue, rlProcessing, rlLastStart>>
          ELSE LoopHead([requests EXCEPT ![r].status = "rejected"],
                        rlQueue)
    /\ rlLastFail' = IF outcome = "rateLimit"
                     THEN [rlLastFail EXCEPT ![requests[rlWorker.req].api] = now]
                     ELSE rlLastFail
    /\ UNCHANGED now

\* processQueue line 89 returned
MandatoryDelayElapsed ==
    /\ service \in LimiterServices
    /\ UNCHANGED limiterFrame
    /\ rlWorker.pc = "mandatory"
    /\ now >= rlWorker.wakeAt
    /\ LoopHead(requests, rlQueue)
    /\ UNCHANGED <<now, rlLastFail>>

\* processQueue line 103 returned, then line 106
CooldownElapsed ==
    /\ service \in LimiterServices
    /\ UNCHANGED limiterFrame
    /\ rlWorker.pc = "cooldown"
    /\ now >= rlWorker.wakeAt
    /\ LoopHead([requests EXCEPT ![rlWorker.req].status = "rejected"], rlQueue)
    /\ UNCHANGED <<now, rlLastFail>>

\* (mutant) clearQueue empties the queue and rejects nothing
Cleared_Silent(reqs, q) == reqs

\* the requests after clearQueue: those in the queue are rejected with
\* 'Queue cleared'; atClear records where each request not yet started stood
Cleared(reqs, q) ==
    [r \in 1..Len(reqs) |->
        IF \E j \in 1..Len(q) : q[j] = r
        THEN [reqs[r] EXCEPT !.status = "cancelled", !.atClear = "queued"]
        ELSE IF reqs[r].status = "waiting"
        THEN [reqs[r] EXCEPT !.atClear = "waiting"]
        ELSE reqs[r]]

\* clearQueue()
ClearQueue ==
    /\ service \in LimiterServices
    /\ UNCHANGED limiterFrame
    /\ requests # <<>>
    /\ requests' = Cleared(requests, rlQueue)
    /\ rlQueue' = <<>>
    /\ UNCHANGED <<now, rlProcessing, lastApiCall, rlWorker, rlLastStart, rlLastFail>>

\* resetAPI(apiName)
ResetAPI(api) ==
    /\ service \in LimiterServices
    /\ UNCHANGED limiterFrame
    /\ lastApiCall[api] # 0
    /\ lastApiCall' = [lastApiCall EXCEPT ![api] = 0]
    /\ rlLastStart' = [rlLastStart EXCEPT ![api] = 0]
    /\ UNCHANGED <<now, rlQueue, rlProcessing, rlWorker, requests, rlLastFail>>

\* resetAll()
ResetAll ==
    /\ service \in LimiterServices
    /\ UNCHANGED limiterFrame
    /\ requests # <<>>
    /\ lastApiCall' = [a \in Apis |-> 0]
    /\ rlLastStart' = [a \in Apis |-> 0]
    /\ requests' = Cleared(requests, rlQueue)
    /\ rlQueue' = <<>>
    /\ UNCHANGED <<now, rlProcessing, rlWorker, rlLastFail>>

\* The clock is read only by the worker (lines 55, 78, 100).  While the
\* worker sleeps, time runs to the moment its timer fires, on time or late;
\* otherwise it advances by one of the gaps while a rate window is open.
LimiterTickSteps ==
    IF rlWorker.pc \in {"globalWait", "apiWait", "mandatory", "cooldown"}
    THEN IF now < rlWorker.wakeAt
         THEN {rlWorker.wakeAt - now, rlWorker.wakeAt - now + MIN_DELAY_BETWEEN_CALLS}
         ELSE {}
    ELSE IF \E a \in Apis : now - lastApiCall[a] < MIN_DELAY_PER_API
         THEN {MIN_DELAY_BETWEEN_CALLS, MIN_DELAY_PER_API}
         ELSE {}

LimiterTick ==
    /\ service \in LimiterServices
    /\ UNCHANGED limiterFrame
    /\ \E d \in LimiterTickSteps :
          /\ now + d <= LimiterMaxTime
          /\ now' = now + d
    /\ UNCHANGED limiterVars

LimiterInit ==
    /\ rlQueue = <<>>
    /\ rlProcessing = FALSE
    /\ lastApiCall = [a \in Apis |-> 0]
    /\ rlWorker = IdleWorker
    /\ requests = <<>>
    /\ rlLastStart = [a \in Apis |-> 0]
    /\ rlLastFail = [a \in Apis |-> 0]

LimiterNext ==
    \/ \E a \in Apis : QueueRequest(a)
    \/ GlobalWaitElapsed
    \/ ApiWaitElapsed
    \/ \E o \in ExecOutcomes : ExecuteSettles(o)
    \/ MandatoryDelayElapsed
    \/ CooldownElapsed
    \/ ClearQueue
    \/ \E a \in Apis : ResetAPI(a)
    \/ ResetAll
    \/ LimiterTick

\* SpecLive: time runs to the moment the sleeping worker's timer fires
LiveTick ==
    /\ service = "live"
    /\ UNCHANGED limiterFrame
    /\ rlWorker.pc \in {"globalWait", "apiWait", "mandatory", "cooldown"}
    /\ now < rlWorker.wakeAt
    /\ now' = rlWorker.wakeAt
    /\ UNCHANGED limiterVars

\* the apiName of the requests of SpecLive
LiveApis == {"P"}

LiveNext ==
    \/ \E a \in LiveApis : QueueRequest(a)
    \/ GlobalWaitElapsed
    \/ ApiWaitElapsed
    \/ \E o \in ExecOutcomes : ExecuteSettles(o)
    \/ MandatoryDelayElapsed
    \/ CooldownElapsed
    \/ ClearQueue
    \/ \E a \in LiveApis : ResetAPI(a)
    \/ ResetAll
    \/ LiveTick

\* every timer set by delay() fires, and every execute() settles
LiveFairness ==
    /\ WF_vars(LiveTick)
    /\ WF_vars(GlobalWaitElapsed)
    /\ WF_vars(ApiWaitElapsed)
    /\ WF_vars(\E o \in ExecOutcomes : ExecuteSettles(o))
    /\ WF_vars(MandatoryDelayElapsed)
    /\ WF_vars(CooldownElapsed)

\* the limiter when only queueRequest is called
FifoNext ==
    \/ \E a \in Apis : QueueRequest(a)
    \/ GlobalWaitElapsed
    \/ ApiWaitElapsed
    \/ \E o \in ExecOutcomes : ExecuteSettles(o)
    \/ MandatoryDelayElapsed
    \/ CooldownElapsed
    \/ LimiterTick

-----------------------------------------------------------------------------
(* APIErrorHandler and BalanceChecker.checkBitcoinBalance *)

ErrorTypes == {"CORS", "RATE_LIMIT", "NOT_FOUND", "NETWORK", "SERVER", "UNKNOWN"}

\* every value of the APIError interface that shouldRetry can be handed
APIErrors == [type : ErrorTypes, isFatal : BOOLEAN, retryAfter : {60}]

\* what a failed attempt throws: the text the message contains and the
\* status / code (0: none, NetworkErrorCode: the string 'NETWORK_ERROR')
NetworkErrorCode == -1
RawMessages == {"cors", "rate limit", "not found", "timeout", "other"}
RawCodes == {0, 404, 429, 503, NetworkErrorCode}
\* the values of the response headers 'retry-after' and 'x-ratelimit-reset':
\* absent ("-"), a number of seconds, or an HTTP date
RetryAfterHeaders == {"-", "0", "30", "date"}
ResetHeaders == {"-", "45"}
NoHeaders == [retryAfter |-> "-", reset |-> "-"]
\* the failures of checkBitcoinBalance's endpoints carry no such header
RawErrors == [msg : RawMessages, code : RawCodes, headers : {NoHeaders}]
\* the failures handed to analyzeError
HintedErrors ==
    [msg : RawMessages, code : RawCodes,
     headers : [retryAfter : RetryAfterHeaders, reset : ResetHeaders]]

\* Number.NaN
NaN == -1

\* parseInt(text, 10): the value of a decimal numeral, NaN for other text
parseInt(text) ==
    CASE text = "0" -> 0
      [] text = "30" -> 30
      [] text = "45" -> 45
      [] text = "60" -> 60
      [] OTHER -> NaN

\* analyzeError lines 38-40: headers['retry-after'] ||
\* headers['x-ratelimit-reset'] || 60
retryAfterHint(headers) ==
    IF headers.retryAfter # "-" THEN headers.retryAfter
    ELSE IF headers.reset # "-" THEN headers.reset ELSE "60"

\* analyzeError; retryAfter is read for RATE_LIMIT alone
analyzeError(e) ==
    IF e.msg = "cors"
    THEN [type |-> "CORS", isFatal |-> TRUE, retryAfter |-> 60]
    ELSE IF e.code = 429 \/ e.msg = "rate limit"
    THEN [type |-> "RATE_LIMIT", isFatal |-> FALSE,
          retryAfter |-> parseInt(retryAfterHint(e.headers))]
    ELSE IF e.code = 404 \/ e.msg = "not found"
    THEN [type |-> "NOT_FOUND", isFatal |-> TRUE, retryAfter |-> 60]
    ELSE IF e.code = NetworkErrorCode \/ e.msg = "timeout"
    THEN [type |-> "NETWORK", isFatal |-> FALSE, retryAfter |-> 60]
    ELSE IF e.code >= 500 /\ e.code < 600
    THEN [type |-> "SERVER", isFatal |-> FALSE, retryAfter |-> 60]
    ELSE [type |-> "UNKNOWN", isFatal |-> FALSE, retryAfter |-> 60]

\* getRetryDelay; error.retryAfter || 60 is 60 for 0 and for NaN
getRetryDelay(error, attemptNumber) ==
    CASE error.type = "RATE_LIMIT" ->
            (IF error.retryAfter \in {0, NaN} THEN 60 ELSE error.retryAfter) * 1000
      [] error.type = "NETWORK" -> Min(1000 * Pow2(attemptNumber), 10000)
      [] error.type = "SERVER" -> Min(2000 * Pow2(attemptNumber), 30000)
      [] error.type \in {"CORS", "NOT_FOUND"} -> 0
      [] OTHER -> 3000

\* (mutant) the fatal flag is not consulted
shouldRetry_IgnoresFatal(error, attemptNumber, maxAttempts) ==
    IF attemptNumber >= maxAttempts THEN FALSE
    ELSE CASE error.type = "RATE_LIMIT" -> attemptNumber < 2
           [] error.type \in {"NETWORK", "SERVER"} -> attemptNumber < maxAttempts
           [] OTHER -> attemptNumber < Min(maxAttempts, 1)

\* shouldRetry
shouldRetry(error, attemptNumber, maxAttempts) ==
    IF error.isFatal THEN FALSE
    ELSE IF attemptNumber >= maxAttempts THEN FALSE
    ELSE CASE error.type = "RATE_LIMIT" -> attemptNumber < 2
           [] error.type \in {"NETWORK", "SERVER"} -> attemptNumber < maxAttempts
           [] OTHER -> attemptNumber < Min(maxAttempts, 1)

NoPolicyCall == [called |-> FALSE]

\* a caller applies shouldRetry to arguments of its choice (one such call
\* is followed per behaviour)
ShouldRetry(error, attemptNumber, maxAttempts) ==
    /\ service = "retry"
    /\ UNCHANGED retryFrame
    /\ policy = NoPolicyCall
    /\ policy' = [called |-> TRUE, error |-> error, attemptNumber |-> attemptNumber,
                  maxAttempts |-> maxAttempts,
                  result |-> shouldRetry(error, attemptNumber, maxAttempts)]
    /\ UNCHANGED <<btc, btcAttempts>>

\* the retryAfter of the errors handed to getRetryDelay
RetryAfters == {NaN, 0, 30, 60}

\* the APIError values handed to getRetryDelay
DelayErrors ==
    {[type |-> t, isFatal |-> t \in {"CORS", "NOT_FOUND"}, retryAfter |-> r] :
        t \in ErrorTypes, r \in RetryAfters}

NoHandlerCall == [fn |-> "-"]

\* a caller applies analyzeError to a failure
AnalyzeError(e) ==
    /\ service = "handler"
    /\ UNCHANGED handlerFrame
    /\ handler' = [fn |-> "analyzeError", raw |-> e, result |-> analyzeError(e)]

\* a caller applies getRetryDelay to an error and an attempt number
GetRetryDelay(error, attemptNumber) ==
    /\ service = "handler"
    /\ UNCHANGED handlerFrame
    /\ handler' = [fn |-> "getRetryDelay", error |-> error,
                   attemptNumber |-> attemptNumber,
                   result |-> getRetryDelay(error, attemptNumber)]

HandlerInit == handler = NoHandlerCall

HandlerNext ==
    \/ \E e \in HintedErrors : AnalyzeError(e)
    \/ \E e \in DelayErrors, n \in 0..MaxDelayAttempt : GetRetryDelay(e, n)

\* the behaviours that exercise checkBitcoinBalance: beside a shouldRetry call
\* of the caller's own, or alone
RetryServices == {"retry", "query"}

BtcChains == {"BTC", "BTC_TESTNET"}

\* checkBitcoinBalance lines 271-306: three endpoints on mainnet, two on testnet
ApiCount(chain) == IF chain = "BTC_TESTNET" THEN 2 ELSE 3

\* checkBitcoinBalance line 313
maxRetries == 2

\* `rateLimits` counts the failures classified RATE_LIMIT of the endpoint in
\* hand (kept in the behaviours of SpecQuery)
IdleQuery ==
    [pc |-> "idle", chain |-> "-", i |-> 0, retryCount |-> 0, result |-> "-", rateLimits |-> 0]
NoAttempts == [a \in 1..3 |-> [fatal |-> "-", afterFatal |-> 0, tried |-> FALSE,
                               stopped |-> FALSE]]

\* checkBitcoinBalance line 319: axios.get is sent to endpoint i
SendRequest(q, att) ==
    /\ btc' = [q EXCEPT !.pc = "request"]
    /\ btcAttempts' = [att EXCEPT ![q.i].afterFatal =
                                      IF att[q.i].fatal # "-" THEN @ + 1 ELSE @,
                                  ![q.i].tried = TRUE]

\* (mutant) the query gives up at the first endpoint that is left
NextApi_GiveUp(q, att) ==
    /\ btc' = [q EXCEPT !.pc = "returned", !.result = "error"]
    /\ btcAttempts' = att

\* checkBitcoinBalance lines 310-311 and 384-399: the next endpoint, or the
\* error result when there is none
NextApi(q, att) ==
    IF q.i < ApiCount(q.chain)
    THEN SendRequest([q EXCEPT !.i = q.i + 1, !.retryCount = 0, !.rateLimits = 0], att)
    ELSE /\ btc' = [q EXCEPT !.pc = "returned", !.result = "error"]
         /\ btcAttempts' = att

\* checkBitcoinBalance lines 377 and 315: retryCount++ and the while condition
Retry(q, att) ==
    LET q2 == [q EXCEPT !.retryCount = q.retryCount + 1]
    IN IF q2.retryCount <= maxRetries
       THEN SendRequest(q2, att)
       ELSE NextApi(q2, att)

\* checkBitcoinBalance(chain, address) is called
CheckBitcoinBalance(chain) ==
    /\ service \in RetryServices
    /\ UNCHANGED retryFrame
    /\ btc.pc \in {"idle", "returned"}
    /\ SendRequest([pc |-> "request", chain |-> chain, i |-> 1, retryCount |-> 0,
                    result |-> "-", rateLimits |-> 0], NoAttempts)
    /\ UNCHANGED policy

\* checkBitcoinBalance lines 319-345: the request succeeded
AttemptSucceeds ==
    /\ service \in RetryServices
    /\ UNCHANGED retryFrame
    /\ btc.pc = "request"
    /\ btc' = [btc EXCEPT !.pc = "returned", !.result = "ok"]
    /\ UNCHANGED <<btcAttempts, policy>>

\* checkBitcoinBalance lines 347-381: the request (or the parser) threw e
AttemptFails(e) ==
    /\ service \in RetryServices
    /\ UNCHANGED retryFrame
    /\ btc.pc = "request"
    /\ LET apiError == analyzeError(e)
           q == [btc EXCEPT !.rateLimits =
                     IF service = "query" /\ apiError.type = "RATE_LIMIT" THEN @ + 1 ELSE @]
       IN IF apiError.isFatal
          THEN NextApi(q, [btcAttempts EXCEPT ![btc.i].fatal = apiError.type])
          ELSE IF shouldRetry(apiError, btc.retryCount, maxRetries)
          THEN IF getRetryDelay(apiError, btc.retryCount) > 0
               THEN /\ btc' = [q EXCEPT !.pc = "retryDelay"]
                    /\ UNCHANGED btcAttempts
               ELSE Retry(q, btcAttempts)
          ELSE NextApi(q, [btcAttempts EXCEPT ![btc.i].stopped = TRUE])
    /\ UNCHANGED policy

\* checkBitcoinBalance line 375 returned
RetryDelayElapsed ==
    /\ service \in RetryServices
    /\ UNCHANGED retryFrame
    /\ btc.pc = "retryDelay"
    /\ Retry(btc, btcAttempts)
    /\ UNCHANGED policy

RetryInit ==
    /\ btc = IdleQuery
    /\ btcAttempts = NoAttempts
    /\ policy = NoPolicyCall

\* checkBitcoinBalance alone
QueryNext ==
    \/ \E c \in BtcChains : CheckBitcoinBalance(c)
    \/ AttemptSucceeds
    \/ \E e \in RawErrors : AttemptFails(e)
    \/ RetryDelayElapsed

RetryNext ==
    \/ \E e \in APIErrors, n \in 0..MaxAttemptNumber, m \in 0..MaxCap : ShouldRetry(e, n, m)
    \/ \E c \in BtcChains : CheckBitcoinBalance(c)
    \/ AttemptSucceeds
    \/ \E e \in RawErrors : AttemptFails(e)
    \/ RetryDelayElapsed

-----------------------------------------------------------------------------
(* BatchBalanceChecker.getBalancesBatch *)

\* isEVMChain
isEVMChain(chain) == chain = "ETH"

\* getDefaultRpcs: the ETH entry lists four URLs
RpcCount(chain) == IF chain = "ETH" THEN 4 ELSE 0

\* provider.getNetwork() resolves or rejects
GetNetworkOutcomes == {"ok", "fail"}

\* the request lists of the model
RequestLists == UNION {[1..n -> Keys] : n \in 1..MaxBatchLen}

\* getBalancesBatch lines 139-146: the chains of the request in order of
\* first appearance, each with the positions of its addresses
RECURSIVE ChainOrder(_, _)
ChainOrder(req, i) ==
    IF i > Len(req) THEN <<>>
    ELSE IF \E j \in 1..(i - 1) : req[j][1] = req[i][1]
    THEN ChainOrder(req, i + 1)
    ELSE <<req[i][1]>> \o ChainOrder(req, i + 1)

PositionsOf(req, chain) == {i \in 1..Len(req) : req[i][1] = chain}

IdleMany == [pc |-> "idle", req |-> <<>>, chains |-> <<>>, g |-> 0, url |-> 0,
             pend |-> {}, got |-> <<>>, results |-> <<>>, status |-> "-"]

\* a BalanceResult of the batch paths: the key and whether `error` is set
BatchResult(key, outcome) == [key |-> key, error |-> (outcome = "error")]

\* the smallest position of a set of positions
MinOf(S) == CHOOSE x \in S : \A y \in S : x <= y

\* getBalancesBatch lines 150-176: enter chain group g, or return the results
EnterGroup(m, g) ==
    IF g > Len(m.chains)
    THEN [m EXCEPT !.pc = "done", !.g = g, !.status = "resolved"]
    ELSE IF isEVMChain(m.chains[g])
    THEN \* getEVMBalancesBatch lines 185-203: no URL configured, or probe the first
         IF RpcCount(m.chains[g]) = 0
         THEN [m EXCEPT !.pc = "done", !.g = g, !.status = "rejected"]
         ELSE [m EXCEPT !.pc = "probe", !.g = g, !.url = 1]
    ELSE [m EXCEPT !.pc = "single", !.g = g,
                   !.pend = PositionsOf(m.req, m.chains[g])]

\* getBalancesBatch(requests)
GetBalancesBatch(req) ==
    /\ service = "many"
    /\ UNCHANGED manyFrame
    /\ many.pc \in {"idle", "done"}
    /\ many' = EnterGroup([IdleMany EXCEPT !.req = req, !.chains = ChainOrder(req, 1),
                                           !.status = "pending"], 1)
    /\ UNCHANGED batchCache

\* getEVMBalancesBatch lines 196-214: provider.getNetwork() settled for the
\* current URL; when every URL has failed the function throws (line 213) and
\* getBalancesBatch, which awaits it outside any try (line 154), rejects
GetNetworkSettles(outcome) ==
    /\ service = "many"
    /\ UNCHANGED manyFrame
    /\ many.pc = "probe"
    /\ many' = IF outcome = "ok"
               THEN [many EXCEPT !.pc = "fanout",
                                 !.pend = PositionsOf(many.req, many.chains[many.g]),
                                 !.got = [i \in 1..Len(many.req) |-> "-"]]
               ELSE IF many.url < RpcCount(many.chains[many.g])
               THEN [many EXCEPT !.url = many.url + 1]
               ELSE [many EXCEPT !.pc = "done", !.status = "rejected"]
    /\ UNCHANGED batchCache

\* the results of chain group g in request order, appended to `results`
GroupResults(m, got) ==
    LET RECURSIVE Collect(_)
        Collect(i) == IF i > Len(m.req) THEN <<>>
                      ELSE IF m.req[i][1] = m.chains[m.g]
                      THEN <<BatchResult(m.req[i], got[i])>> \o Collect(i + 1)
                      ELSE Collect(i + 1)
    IN m.results \o Collect(1)

\* getEVMBalancesBatch lines 218-248: provider.getBalance settled for the
\* address at position i; a success is cached, a failure becomes a result
\* with `error`; Promise.all resolves once every address has settled
EvmBalanceSettles(i, outcome) ==
    /\ service = "many"
    /\ UNCHANGED manyFrame
    /\ many.pc = "fanout"
    /\ i \in many.pend
    /\ LET got == [many.got EXCEPT ![i] = outcome]
           m == [many EXCEPT !.pend = many.pend \ {i}, !.got = got]
       IN many' = IF m.pend = {}
                  THEN EnterGroup([m EXCEPT !.results = GroupResults(m, got),
                                            !.got = <<>>], m.g + 1)
                  ELSE m
    /\ batchCache' = IF outcome = "ok"
                     THEN cacheResult(batchCache, many.req[i],
                                      MakeResult(many.req[i], outcome, 0), now)
                     ELSE batchCache

\* getBalancesBatch lines 157-172: the awaited getBalance(chain, address) of a
\* non-EVM chain resolved; the addresses are served in request order
QueuedBalanceSettles(outcome) ==
    /\ service = "many"
    /\ UNCHANGED manyFrame
    /\ many.pc = "single"
    /\ LET i == MinOf(many.pend)
           m == [many EXCEPT !.pend = many.pend \ {i},
                             !.results = Append(many.results,
                                                BatchResult(many.req[i], outcome))]
       IN many' = IF m.pend = {} THEN EnterGroup(m, m.g + 1) ELSE m
    /\ UNCHANGED batchCache

ManyInit == many = IdleMany

ManyNext ==
    \/ \E req \in RequestLists : GetBalancesBatch(req)
    \/ \E o \in GetNetworkOutcomes : GetNetworkSettles(o)
    \/ \E i \in 1..MaxBatchLen, o \in CheckBalanceOutcomes : EvmBalanceSettles(i, o)
    \/ \E o \in CheckBalanceOutcomes : QueuedBalanceSettles(o)

-----------------------------------------------------------------------------
(* WalletWatcherService *)

\* the ids `${chain}-${address}` of the model
WatchIds == {"BTC-a1"}
\* the ids of SpecPair, which watches two addresses
PairIds == {"BTC-a1", "ETH-a2"}

\* SpecPair runs the service with two addresses and an alert callback
WatcherServices == {"watcher", "pair"}
AddBound == IF service = "pair" THEN MaxPairAdds ELSE MaxAdds
CheckBound == IF service = "pair" THEN MaxPairChecks ELSE MaxChecks

\* the callbacks handed to onAlert
Callbacks == {"page"}

\* minutes between checks handed to updateCheckInterval
CheckIntervals == {30}
DefaultCheckInterval == 15
DefaultAlertThreshold == 5

\* the balances BalanceChecker.checkBalance reports
Balances == {0, 100, 104, 106}

\* the alertThreshold option of addWatchAddress (0: not given), and the
\* thresholds handed to updateAlertThreshold; percentages of the form's range
ThresholdOptions == {0, 6}
AlertThresholds == {5, 6}

\* changePercent is a double; the model keeps four decimals of it
PercentScale == 10000

HISTORY_LIMIT == 100
ALERT_LIMIT == 50

\* (mutant) the id's previous timer is left running
StartPeriodicCheck_NoClear(o, id, period) ==
    /\ timerCount' = timerCount + 1
    /\ timers' = timers \cup {[h |-> timerCount + 1, obj |-> o, period |-> period]}
    /\ checkIntervals' = [checkIntervals EXCEPT ![id] = timerCount + 1]

\* startPeriodicCheck(address): clear the id's timer if it has one, set a
\* new one and store its handle
StartPeriodicCheck(o, id, period) ==
    /\ timerCount' = timerCount + 1
    /\ timers' = {t \in timers : t.h # checkIntervals[id]}
                     \cup {[h |-> timerCount + 1, obj |-> o, period |-> period]}
    /\ checkIntervals' = [checkIntervals EXCEPT ![id] = timerCount + 1]

\* the place in which a checkBalance invocation goes past its await, after
\* those of cs that have; SpecWatcher alone keeps count
NextRank(cs) ==
    IF service = "watcher"
    THEN Cardinality({c \in DOMAIN cs : cs[c].status # "inflight"}) + 1
    ELSE 0

\* checkBalance(address) up to its await: BalanceChecker.checkBalance is sent;
\* rank will say in which place the invocation went past its await
StartCheck(cs, o, id, origin) ==
    Append(cs, [obj |-> o, origin |-> origin, status |-> "inflight",
                startedRemoved |-> id \in removed, rank |-> 0])

\* addWatchAddress(address, chain, options)
AddWatchAddress(id, interval, threshold) ==
    /\ service \in WatcherServices
    /\ UNCHANGED watcherFrame
    /\ Len(wObjs) < AddBound
    /\ timerCount < MaxTimers
    /\ Len(checks) < CheckBound
    /\ LET o == Len(wObjs) + 1
       IN /\ wObjs' = Append(wObjs, [id |-> id, lastBalance |-> -1,
                                     checkInterval |-> interval,
                                     alertThreshold |-> IF threshold = 0
                                                        THEN DefaultAlertThreshold
                                                        ELSE threshold])
          /\ watchedAddresses' = [watchedAddresses EXCEPT ![id] = o]
          /\ StartPeriodicCheck(o, id, interval)
          /\ removed' = removed \ {id}
          /\ checks' = StartCheck(checks, o, id, "initial")
    /\ UNCHANGED <<balanceHistory, alerts, alertCallbacks>>

\* the live timer with handle h fires: () => this.checkBalance(address)
TimerFires(h) ==
    /\ service \in WatcherServices
    /\ UNCHANGED watcherFrame
    /\ Len(checks) < CheckBound
    /\ \E t \in timers :
          /\ t.h = h
          /\ checks' = StartCheck(checks, t.obj, wObjs[t.obj].id, "timer")
    /\ UNCHANGED <<wObjs, watchedAddresses, balanceHistory, alerts, alertCallbacks, checkIntervals, timers,
                   timerCount, removed>>

\* the page calls checkBalance(address) for an address of getWatchedAddresses
ManualCheck(id) ==
    /\ service \in WatcherServices
    /\ UNCHANGED watcherFrame
    /\ watchedAddresses[id] # 0
    /\ Len(checks) < CheckBound
    /\ checks' = StartCheck(checks, watchedAddresses[id], id, "manual")
    /\ UNCHANGED <<wObjs, watchedAddresses, balanceHistory, alerts, alertCallbacks, checkIntervals, timers,
                   timerCount, removed>>

\* (mutant) the change is taken from the new balance to the previous one
ChangePercent_Reversed(history, balance) ==
    IF history # <<>> /\ history[Len(history)].balance # 0
    THEN ((history[Len(history)].balance - balance) * 100 * PercentScale)
             \div history[Len(history)].balance
    ELSE 0

\* addToHistory lines 144-156: the change against the previous entry
ChangePercent(history, balance) ==
    IF history # <<>> /\ history[Len(history)].balance # 0
    THEN ((balance - history[Len(history)].balance) * 100 * PercentScale)
             \div history[Len(history)].balance
    ELSE 0

\* checkBitcoinBalance lines 327 and 343: (satoshis / 1e8).toFixed(8), a
\* decimal numeral with `places` digits after the point
formattedBalance(balance) == [digits |-> balance, places |-> 8]

\* addToHistory lines 158-167: the entry made of a result
HistoryEntry(history, balance, t) ==
    [timestamp |-> t, balance |-> balance,
     formattedBalance |-> formattedBalance(balance),
     changePercent |-> ChangePercent(history, balance)]

\* (mutant) nothing is ever evicted from the history
addToHistory_Unbounded(history, balance, t) ==
    Append(history, HistoryEntry(history, balance, t))

\* addToHistory: push the entry, keep the last HISTORY_LIMIT
addToHistory(history, balance, t) ==
    LET pushed == Append(history, HistoryEntry(history, balance, t))
    IN IF Len(pushed) > HISTORY_LIMIT THEN Tail(pushed) ELSE pushed

Abs(x) == IF x < 0 THEN -x ELSE x

\* (mutant) the threshold itself does not count
checkForAlerts_Strict(as, address, entry) ==
    IF entry.changePercent = 0 \/ address.alertThreshold = 0
    THEN as
    ELSE IF Abs(entry.changePercent) > address.alertThreshold * PercentScale
    THEN LET pushed == Append(as, [addressId |-> address.id,
                                   type |-> IF entry.changePercent > 0
                                            THEN "increase" ELSE "decrease",
                                   changePercent |-> entry.changePercent,
                                   whileRemoved |-> address.id \in removed])
         IN IF Len(pushed) > ALERT_LIMIT THEN Tail(pushed) ELSE pushed
    ELSE as

\* checkForAlerts: push an alert when the change reaches the threshold,
\* keep the last ALERT_LIMIT
checkForAlerts(as, address, entry) ==
    IF entry.changePercent = 0 \/ address.alertThreshold = 0
    THEN as
    ELSE IF Abs(entry.changePercent) >= address.alertThreshold * PercentScale
    THEN LET pushed == Append(as, [addressId |-> address.id,
                                   type |-> IF entry.changePercent > 0
                                            THEN "increase" ELSE "decrease",
                                   changePercent |-> entry.changePercent,
                                   whileRemoved |-> address.id \in removed])
         IN IF Len(pushed) > ALERT_LIMIT THEN Tail(pushed) ELSE pushed
    ELSE as

\* checkBalance lines 115-126: BalanceChecker.checkBalance resolved for check c
CheckCompletes(c, balance) ==
    /\ service \in WatcherServices
    /\ UNCHANGED watcherFrame
    /\ c \in DOMAIN checks
    /\ checks[c].status = "inflight"
    /\ LET o == checks[c].obj
           id == wObjs[o].id
           address == [wObjs[o] EXCEPT !.lastBalance = balance]
           history == addToHistory(balanceHistory[id], balance, now)
       IN /\ wObjs' = [wObjs EXCEPT ![o] = address]
          /\ watchedAddresses' = [watchedAddresses EXCEPT ![id] = o]
          /\ balanceHistory' = [balanceHistory EXCEPT ![id] = history]
          /\ alerts' = checkForAlerts(alerts, address, history[Len(history)])
    /\ checks' = [checks EXCEPT ![c].status = "done", ![c].rank = NextRank(checks)]
    /\ UNCHANGED <<alertCallbacks, checkIntervals, timers, timerCount, removed>>

\* checkBalance lines 115-126 when BalanceChecker.checkBalance resolved with
\* a result that carries `error`: its balance is '0' (balanceChecker.ts
\* lines 98-117, 390-399)
CheckFails(c) ==
    /\ service \in WatcherServices
    /\ UNCHANGED watcherFrame
    /\ c \in DOMAIN checks
    /\ checks[c].status = "inflight"
    /\ LET o == checks[c].obj
           id == wObjs[o].id
           address == [wObjs[o] EXCEPT !.lastBalance = 0]
           history == addToHistory(balanceHistory[id], 0, now)
       IN /\ wObjs' = [wObjs EXCEPT ![o] = address]
          /\ watchedAddresses' = [watchedAddresses EXCEPT ![id] = o]
          /\ balanceHistory' = [balanceHistory EXCEPT ![id] = history]
          /\ alerts' = checkForAlerts(alerts, address, history[Len(history)])
    /\ checks' = [checks EXCEPT ![c].status = "failed", ![c].rank = NextRank(checks)]
    /\ UNCHANGED <<alertCallbacks, checkIntervals, timers, timerCount, removed>>

\* (mutant) the alerts of the id go with it
RemoveWatchedAddress_DropsAlerts(id) ==
    /\ service \in WatcherServices
    /\ UNCHANGED watcherFrame
    /\ watchedAddresses[id] # 0
    /\ timers' = {t \in timers : t.h # checkIntervals[id]}
    /\ checkIntervals' = [checkIntervals EXCEPT ![id] = 0]
    /\ watchedAddresses' = [watchedAddresses EXCEPT ![id] = 0]
    /\ balanceHistory' = [balanceHistory EXCEPT ![id] = <<>>]
    /\ removed' = removed \cup {id}
    /\ alerts' = SelectSeq(alerts, LAMBDA a : a.addressId # id)
    /\ UNCHANGED <<wObjs, alertCallbacks, timerCount, checks>>

\* removeWatchedAddress(addressId)
RemoveWatchedAddress(id) ==
    /\ service \in WatcherServices
    /\ UNCHANGED watcherFrame
    /\ watchedAddresses[id] # 0
    /\ timers' = {t \in timers : t.h # checkIntervals[id]}
    /\ checkIntervals' = [checkIntervals EXCEPT ![id] = 0]
    /\ watchedAddresses' = [watchedAddresses EXCEPT ![id] = 0]
    /\ balanceHistory' = [balanceHistory EXCEPT ![id] = <<>>]
    /\ removed' = removed \cup {id}
    /\ UNCHANGED <<wObjs, alerts, alertCallbacks, timerCount, checks>>

\* updateCheckInterval(addressId, intervalMinutes)
UpdateCheckInterval(id, interval) ==
    /\ service \in WatcherServices
    /\ UNCHANGED watcherFrame
    /\ watchedAddresses[id] # 0
    /\ timerCount < MaxTimers
    /\ wObjs' = [wObjs EXCEPT ![watchedAddresses[id]].checkInterval = interval]
    /\ StartPeriodicCheck(watchedAddresses[id], id, interval)
    /\ UNCHANGED <<watchedAddresses, balanceHistory, alerts, alertCallbacks, checks, removed>>

\* updateAlertThreshold(addressId, threshold)
UpdateAlertThreshold(id, threshold) ==
    /\ service \in WatcherServices
    /\ UNCHANGED watcherFrame
    /\ watchedAddresses[id] # 0
    /\ wObjs[watchedAddresses[id]].alertThreshold # threshold
    /\ wObjs' = [wObjs EXCEPT ![watchedAddresses[id]].alertThreshold = threshold]
    /\ UNCHANGED <<watchedAddresses, balanceHistory, alerts, alertCallbacks, checkIntervals, timers,
                   timerCount, checks, removed>>

\* onAlert(callback)
OnAlert(callback) ==
    /\ service = "pair"
    /\ UNCHANGED watcherFrame
    /\ Len(alertCallbacks) < MaxCallbacks
    /\ alertCallbacks' = Append(alertCallbacks, callback)
    /\ UNCHANGED <<wObjs, watchedAddresses, balanceHistory, alerts, checkIntervals, timers,
                   timerCount, checks, removed>>

WatcherInit ==
    /\ wObjs = <<>>
    /\ watchedAddresses = [id \in PairIds |-> 0]
    /\ balanceHistory = [id \in PairIds |-> <<>>]
    /\ alerts = <<>>
    /\ alertCallbacks = <<>>
    /\ checkIntervals = [id \in PairIds |-> 0]
    /\ timers = {}
    /\ timerCount = 0
    /\ checks = <<>>
    /\ removed = {}

WatcherNext ==
    \/ \E id \in WatchIds, t \in ThresholdOptions :
          AddWatchAddress(id, DefaultCheckInterval, t)
    \/ \E h \in 1..MaxTimers : TimerFires(h)
    \/ \E id \in WatchIds : ManualCheck(id)
    \/ \E c \in 1..MaxChecks, b \in Balances : CheckCompletes(c, b)
    \/ \E c \in 1..MaxChecks : CheckFails(c)
    \/ \E id \in WatchIds : RemoveWatchedAddress(id)
    \/ \E id \in WatchIds, m \in CheckIntervals : UpdateCheckInterval(id, m)
    \/ \E id \in WatchIds, t \in AlertThresholds : UpdateAlertThreshold(id, t)

\* the balances the checks of SpecPair report
PairBalances == {100, 106}

PairNext ==
    \/ \E id \in PairIds : AddWatchAddress(id, DefaultCheckInterval, 0)
    \/ \E h \in 1..MaxTimers : TimerFires(h)
    \/ \E c \in 1..MaxPairChecks, b \in PairBalances : CheckCompletes(c, b)
    \/ \E id \in PairIds : RemoveWatchedAddress(id)
    \/ \E cb \in Callbacks : OnAlert(cb)

-----------------------------------------------------------------------------
(* WalletWatcherService over a long run of checks.  The checks follow a     *)
(* schedule fixed when the run starts: which address each check is for and  *)
(* which balance it finds.  `log` and `alertLog` keep everything that was   *)
(* ever appended.                                                           *)

RingIds == {"BTC-a1", "BTC-a2"}

\* "single": one address whose balance swings between 100 and 106;
\* "pair": two addresses checked in turn, both swinging;
\* "quiet": one address whose balance never changes
Schedules == {"single", "pair", "quiet"}

\* the address of the k-th check
CheckedAt(schedule, k) ==
    IF schedule = "pair" /\ k % 2 = 0 THEN "BTC-a2" ELSE "BTC-a1"

\* the balance found by the k-th check
BalanceAt(schedule, k) ==
    LET j == IF schedule = "pair" THEN (k + 1) \div 2 ELSE k
    IN IF schedule = "quiet" \/ j % 2 = 1 THEN 100 ELSE 106

NoExport == [id |-> "-", text |-> <<>>]

\* checkBalance lines 106-126 for the next check of the schedule, the
\* checks being DefaultCheckInterval minutes apart
CheckBalance ==
    /\ service = "ring"
    /\ UNCHANGED ringFrame
    /\ ring.n < MaxAppends
    /\ csv = NoExport
    /\ LET k == ring.n + 1
           id == CheckedAt(ring.schedule, k)
           balance == BalanceAt(ring.schedule, k)
           address == [id |-> id, alertThreshold |-> DefaultAlertThreshold]
           history == addToHistory(ring.history[id], balance, now)
           entry == history[Len(history)]
       IN ring' = [ring EXCEPT !.n = k,
                               !.history[id] = history,
                               !.alerts = checkForAlerts(@, address, entry),
                               !.log[id] = Append(@, entry),
                               !.alertLog = @ \o checkForAlerts(<<>>, address, entry)]
    /\ now' = now + DefaultCheckInterval * 60000
    /\ UNCHANGED csv

\* Date.prototype.toISOString keeps the milliseconds: the text up to the
\* seconds, and the three digits after the point
toISOString(t) == [upToSeconds |-> t \div 1000, millis |-> t % 1000]

\* the instant an ISO text denotes
ParseDate(iso) == iso.upToSeconds * 1000 + iso.millis

\* Number.prototype.toFixed(2) of a changePercent: the numeral with two
\* digits after the point nearest to it, given as its number of hundredths
toFixed2(cp) ==
    LET unit == PercentScale \div 100
    IN IF cp >= 0 THEN (2 * cp + unit) \div (2 * unit)
       ELSE -((2 * (-cp) + unit) \div (2 * unit))

\* the changePercent a two-digit numeral denotes
ParsePercent(hundredths) == hundredths * (PercentScale \div 100)

\* exportHistoryToCsv lines 358-364: the fields of one row.  Results carry
\* no usdValue here; changeAmount is not kept in the model's entries.
CsvRow(h) ==
    <<toISOString(h.timestamp), h.formattedBalance, "N/A", toFixed2(h.changePercent), "-">>

\* exportHistoryToCsv lines 350-375: the lines of the text, '' when the
\* address is not watched or has no history
exportHistoryToCsv(id, history) ==
    IF history = <<>> THEN <<>>
    ELSE <<"Address:", "Chain:", "Name:", "",
           "Timestamp,Balance,USD Value,Change %,Change Amount">>
         \o [k \in 1..Len(history) |-> CsvRow(history[k])]

\* exportHistoryToCsv(id) is called for a watched address
ExportHistoryToCsv(id) ==
    /\ service = "ring"
    /\ UNCHANGED ringFrame
    /\ csv = NoExport
    /\ ring.log[id] # <<>>
    /\ csv' = [id |-> id, text |-> exportHistoryToCsv(id, ring.history[id])]
    /\ UNCHANGED <<now, ring>>

\* the schedule is fixed when a run of SpecRing starts
RingInit ==
    /\ ring \in {[schedule |-> p, n |-> 0,
                   history |-> [id \in RingIds |-> <<>>], alerts |-> <<>>,
                   log |-> [id \in RingIds |-> <<>>], alertLog |-> <<>>] :
                     p \in IF service = "ring" THEN Schedules ELSE {"single"}}
    /\ csv = NoExport

RingNext ==
    \/ CheckBalance
    \/ \E id \in RingIds : ExportHistoryToCsv(id)

-----------------------------------------------------------------------------
(* PortfolioService.  Values are whole dollars.                             *)

\* the usdValue of a wallet's native balance, and of one token holding
UsdValues == {0, 1, 3}
TokenValues == {0, 1}

\* how many tokens the first wallet holds: few, or more than the ten that
\* topTokens keeps
TokenCounts == {0, 1, 2, MaxTokens - 1, MaxTokens}

\* the wallets of a portfolio, with their balance results: wallet i is on
\* chain Min(i, c), so the wallets from the c-th on share a chain; the
\* first wallet (or the last, when `last`) is worth v1 and the others v; the
\* first wallet holds t tokens worth tv each
WalletsOf(n, c, last, v1, v, t, tv) ==
    [i \in 1..n |->
        [chain |-> Min(i, c),
         usdValue |-> IF i = (IF last THEN n ELSE 1) THEN v1 ELSE v,
         tokens |-> IF i = 1
                    THEN [j \in 1..t |-> [symbol |-> j, chainId |-> 1, usdValue |-> tv]]
                    ELSE <<>>]]

\* the sum of f over S
SumOf(f, S) ==
    LET RECURSIVE Sum(_)
        Sum(T) == IF T = {} THEN 0
                  ELSE LET x == CHOOSE y \in T : TRUE IN f[x] + Sum(T \ {x})
    IN Sum(S)

\* Array.prototype.sort((a, b) => b.totalValue - a.totalValue): stable,
\* largest totalValue first
SortByTotalValue(seq) ==
    LET \* how many items come before item k: the larger ones, and the equal
        \* ones that were before it
        before(k) == Cardinality({j \in 1..Len(seq) :
                         \/ seq[j].totalValue > seq[k].totalValue
                         \/ seq[j].totalValue = seq[k].totalValue /\ j < k})
    IN [r \in 1..Len(seq) |-> seq[CHOOSE k \in 1..Len(seq) : before(k) = r - 1]]

\* the keys of a Map in the order of their insertion, key[k] being the key
\* of the k-th item put
InsertionOrder(key) ==
    LET first == {k \in 1..Len(key) : \A j \in 1..(k - 1) : key[j] # key[k]}
    IN [r \in 1..Cardinality(first) |->
           key[CHOOSE k \in first : Cardinality({j \in first : j < k}) = r - 1]]

\* generatePortfolioSummary lines 766-809: the wallet's summary
WalletSummaryOf(wallet) ==
    LET tokenUsdValue == SumOf([j \in 1..Len(wallet.tokens) |-> wallet.tokens[j].usdValue],
                               1..Len(wallet.tokens))
    IN [chain |-> wallet.chain,
        nativeUsdValue |-> wallet.usdValue,
        tokenCount |-> Len(wallet.tokens),
        tokenUsdValue |-> tokenUsdValue,
        totalUsdValue |-> wallet.usdValue + tokenUsdValue]

\* generatePortfolioSummary(wallets, balanceResults)
generatePortfolioSummary(wallets) ==
    LET walletSummaries == [i \in 1..Len(wallets) |-> WalletSummaryOf(wallets[i])]
        chainKeys == InsertionOrder([i \in 1..Len(wallets) |-> wallets[i].chain])
        chainMap == [k \in 1..Len(chainKeys) |->
                        LET on == {i \in 1..Len(wallets) : wallets[i].chain = chainKeys[k]}
                        IN [chain |-> chainKeys[k],
                            walletCount |-> Cardinality(on),
                            totalValue |-> SumOf([i \in on |-> walletSummaries[i].totalUsdValue],
                                                 on)]]
        \* the token holdings in the order the two loops visit them
        slots == {<<i, j>> \in (1..Len(wallets)) \X (1..MaxTokens + 1) :
                     j <= Len(wallets[i].tokens)}
        rank(x) == Cardinality({y \in slots : y[1] < x[1] \/ (y[1] = x[1] /\ y[2] < x[2])})
        held == [r \in 1..Cardinality(slots) |->
                    LET x == CHOOSE y \in slots : rank(y) = r - 1
                    IN wallets[x[1]].tokens[x[2]]]
        tokenKeys == InsertionOrder([m \in 1..Len(held) |->
                                        <<held[m].symbol, held[m].chainId>>])
        tokenMap == [k \in 1..Len(tokenKeys) |->
                        LET same == {m \in 1..Len(held) :
                                        <<held[m].symbol, held[m].chainId>> = tokenKeys[k]}
                        IN [symbol |-> tokenKeys[k][1],
                            totalValue |-> SumOf([m \in same |-> held[m].usdValue], same)]]
        sortedTokens == SortByTotalValue(tokenMap)
    IN [totalWallets |-> Len(wallets),
        totalValue |-> SumOf([i \in 1..Len(wallets) |-> walletSummaries[i].totalUsdValue],
                             1..Len(wallets)),
        chains |-> SortByTotalValue(chainMap),
        topTokens |-> SubSeq(sortedTokens, 1, Min(10, Len(sortedTokens)))]

\* Math.round of the fraction num / den, den > 0: floor(x + 0.5)
Round(num, den) == (2 * num + den) \div (2 * den)

\* (mutant) the points for the networks are not capped
calculateDiversificationScore_Uncapped(portfolio) ==
    IF portfolio.totalValue = 0 THEN 0
    ELSE LET chainScore == Len(portfolio.chains) * 8
             tokenScore == Min(Len(portfolio.topTokens) * 3, 30)
             topChainValue == IF Len(portfolio.chains) > 0
                              THEN portfolio.chains[1].totalValue ELSE 0
             spread == Max(0, (portfolio.totalValue - topChainValue) * 30)
         IN Round((chainScore + tokenScore) * portfolio.totalValue + spread,
                  portfolio.totalValue)

\* (mutant) the value is taken to be spread evenly: 30 points for evenness
calculateDiversificationScore_EvenSpread(portfolio) ==
    IF portfolio.totalValue = 0 THEN 0
    ELSE LET chainScore == Min(Len(portfolio.chains) * 8, 40)
             tokenScore == Min(Len(portfolio.topTokens) * 3, 30)
         IN chainScore + tokenScore + 30

\* calculateDiversificationScore(portfolio); distributionScore is the
\* fraction spread / totalValue
calculateDiversificationScore(portfolio) ==
    IF portfolio.totalValue = 0 THEN 0
    ELSE LET chainScore == Min(Len(portfolio.chains) * 8, 40)
             tokenScore == Min(Len(portfolio.topTokens) * 3, 30)
             topChainValue == IF Len(portfolio.chains) > 0
                              THEN portfolio.chains[1].totalValue ELSE 0
             spread == Max(0, (portfolio.totalValue - topChainValue) * 30)
         IN Round((chainScore + tokenScore) * portfolio.totalValue + spread,
                  portfolio.totalValue)

NoSummary == [none |-> TRUE]
NoStats == [none |-> TRUE]

\* generatePortfolioSummary is called with the wallets WalletsOf(...)
GeneratePortfolioSummary(n, c, last, v1, v, t, tv) ==
    /\ pf.summary = NoSummary
    /\ service = "portfolio"
    /\ UNCHANGED portfolioFrame
    /\ c <= Max(n, 1)
    /\ n = 0 => t = 0
    /\ LET wallets == WalletsOf(n, c, last, v1, v, t, tv)
       IN pf' = [wallets |-> wallets, summary |-> generatePortfolioSummary(wallets),
                 stats |-> NoStats]

\* getPortfolioStats(portfolio) is called with the summary
GetPortfolioStats ==
    /\ service = "portfolio"
    /\ UNCHANGED portfolioFrame
    /\ pf.summary # NoSummary
    /\ pf.stats = NoStats
    /\ pf' = [pf EXCEPT !.stats =
                  [chainCount |-> Len(pf.summary.chains),
                   diversificationScore |-> calculateDiversificationScore(pf.summary)]]

PortfolioInit == pf = [wallets |-> <<>>, summary |-> NoSummary, stats |-> NoStats]

PortfolioNext ==
    \/ \E n \in 0..MaxWallets, c \in 1..MaxWallets, last \in BOOLEAN,
          v1 \in UsdValues, v \in TokenValues, t \in TokenCounts, tv \in TokenValues :
          GeneratePortfolioSummary(n, c, last, v1, v, t, tv)
    \/ GetPortfolioStats

-----------------------------------------------------------------------------
(* The EVM batch queries: SmartBalanceChecker.batchEVMBalances and           *)
(* BatchBalanceChecker.getEVMBalancesBatch.  Addresses are numbered 1..n in  *)
(* the order of the request.                                                 *)

IdleFan == [impl |-> "-", pc |-> "idle", n |-> 0, i |-> 0, inFlight |-> {}, results |-> 0]

\* batchEVMBalances line 281
batchSize == 10

\* batchEVMBalances lines 284-285 and 287-288: provider.getBalance is called
\* for each address of addresses.slice(i, i + batchSize)
IssueSlice(f, i) ==
    [f EXCEPT !.pc = "await", !.i = i,
              !.inFlight = {a \in 1..f.n : a > i /\ a <= i + batchSize}]

\* SmartBalanceChecker.batchCheckBalances with n addresses of one EVM
\* network: batchEVMBalances runs up to its first Promise.all
BatchEVMBalances(n) ==
    /\ service = "fanout"
    /\ UNCHANGED fanFrame
    /\ fan.pc = "idle"
    /\ fan' = IssueSlice([IdleFan EXCEPT !.impl = "smart", !.n = n], 0)

\* BatchBalanceChecker.getBalancesBatch with n addresses of one EVM
\* network: getEVMBalancesBatch, once connected, maps provider.getBalance
\* over all the addresses (lines 218-219) and awaits Promise.all (line 250)
GetEVMBalancesBatch(n) ==
    /\ service = "fanout"
    /\ UNCHANGED fanFrame
    /\ fan.pc = "idle"
    /\ fan' = [IdleFan EXCEPT !.impl = "batch", !.pc = "await", !.n = n,
                              !.inFlight = 1..n]

\* provider.getBalance(address) settled for address a; when it was the last
\* one in flight Promise.all resolves: batchEVMBalances sleeps 500 ms if
\* addresses remain (lines 315-317), otherwise the query returns
ProviderGetBalanceSettles(a) ==
    /\ service = "fanout"
    /\ UNCHANGED fanFrame
    /\ fan.pc = "await"
    /\ a \in fan.inFlight
    /\ LET rest == fan.inFlight \ {a}
           f == [fan EXCEPT !.inFlight = rest, !.results = @ + 1]
       IN fan' = IF rest # {} THEN f
                 ELSE IF fan.impl = "smart" /\ fan.i + batchSize < fan.n
                 THEN [f EXCEPT !.pc = "delay"]
                 ELSE [f EXCEPT !.pc = "returned"]

\* batchEVMBalances line 316 returned: the next slice is issued
SliceDelayElapsed ==
    /\ service = "fanout"
    /\ UNCHANGED fanFrame
    /\ fan.pc = "delay"
    /\ fan' = IssueSlice(fan, fan.i + batchSize)

\* the caller received the results; another query may follow
QueryReturns ==
    /\ service = "fanout"
    /\ UNCHANGED fanFrame
    /\ fan.pc = "returned"
    /\ fan' = IdleFan

FanInit == fan = IdleFan

FanNext ==
    \/ \E n \in 1..MaxAddresses : BatchEVMBalances(n)
    \/ \E n \in 1..MaxAddresses : GetEVMBalancesBatch(n)
    \/ \E a \in 1..MaxAddresses : ProviderGetBalanceSettles(a)
    \/ SliceDelayElapsed
    \/ QueryReturns

-----------------------------------------------------------------------------
(* BalanceChecker.checkEVMBalance.  An endpoint is named by its URL.  What  *)
(* the endpoints do during one call is fixed when the call starts:          *)
(* `answering` are those whose getNetwork() resolves, `healthy` those whose *)
(* getBalance() resolves too.                                               *)

EvmChains == {"ETH", "CRONOS"}

defaultRpcs ==
    [ETH |-> <<"rpc.ankr.com/eth", "ethereum.publicnode.com", "eth.llamarpc.com">>,
     CRONOS |-> <<"evm.cronos.org">>]

Urls(chain) == {defaultRpcs[chain][k] : k \in 1..Len(defaultRpcs[chain])}

CustomRpcUrls == {"-", "custom.example"}     \* "-": customRpcUrl not given

AllUrls == UNION {Urls(chain) : chain \in EvmChains} \cup (CustomRpcUrls \ {"-"})

IdleEvm ==
    [pc |-> "idle", chain |-> "-", customRpcUrl |-> "-", answering |-> {}, healthy |-> {},
     provider |-> "-", i |-> 0, cachedFailed |-> "-", result |-> "-"]

\* initProviders, for one chain of its argument
InitProviders(chain, url) ==
    /\ service = "evm"
    /\ evm.pc = "idle"
    /\ url \in Urls(chain)
    /\ evmProviders' = [evmProviders EXCEPT ![chain] = url]
    /\ UNCHANGED <<evm, evmFrame>>

\* checkEVMBalance up to its first await
CheckEVMBalance(chain, customRpcUrl, answering, healthy) ==
    /\ service = "evm"
    /\ evm.pc = "idle"
    /\ healthy \subseteq answering
    /\ answering \subseteq Urls(chain) \cup ({customRpcUrl} \ {"-"})
    /\ LET provider == IF customRpcUrl # "-" THEN customRpcUrl ELSE evmProviders[chain]
       IN  evm' = [pc |-> IF provider = "-" THEN "getNetwork" ELSE "getBalance",
                   chain |-> chain, customRpcUrl |-> customRpcUrl,
                   answering |-> answering, healthy |-> healthy,
                   provider |-> provider, i |-> 1, cachedFailed |-> "-", result |-> "-"]
    /\ UNCHANGED <<evmProviders, evmFrame>>

\* the loop over rpcUrls: provider.getNetwork() of the endpoint tried settles
EvmGetNetworkSettles ==
    /\ service = "evm"
    /\ evm.pc = "getNetwork"
    /\ LET rpcUrls == defaultRpcs[evm.chain]
           rpcUrl == rpcUrls[evm.i]
       IN  IF rpcUrl \in evm.answering
           THEN /\ evmProviders' = [evmProviders EXCEPT ![evm.chain] = rpcUrl]
                /\ evm' = [evm EXCEPT !.provider = rpcUrl, !.pc = "getBalance"]
           ELSE /\ UNCHANGED evmProviders
                /\ evm' = IF evm.i < Len(rpcUrls)
                          THEN [evm EXCEPT !.provider = "-", !.i = @ + 1]
                          ELSE [evm EXCEPT !.provider = "-", !.pc = "idle",
                                           !.result = "No provider configured"]
    /\ UNCHANGED evmFrame

\* provider.getBalance(address) settles
EvmGetBalanceSettles ==
    /\ service = "evm"
    /\ evm.pc = "getBalance"
    /\ evm' = IF evm.provider \in evm.healthy
              THEN [evm EXCEPT !.pc = "idle", !.result = "ok"]
              ELSE LET failed == [evm EXCEPT !.cachedFailed =
                                      IF evm.provider = evmProviders[evm.chain]
                                      THEN evm.provider ELSE "-"]
                   IN  IF evm.customRpcUrl = "-" /\ Len(defaultRpcs[evm.chain]) > 1
                       THEN [failed EXCEPT !.pc = "backup", !.i = 2]
                       ELSE [failed EXCEPT !.pc = "idle", !.result = "RPC connection failed"]
    /\ UNCHANGED <<evmProviders, evmFrame>>

\* the loop over the backup RPCs: backupProvider.getBalance(address) settles
BackupGetBalanceSettles ==
    /\ service = "evm"
    /\ evm.pc = "backup"
    /\ LET rpcUrls == defaultRpcs[evm.chain]
           backupRpcUrl == rpcUrls[evm.i]
       IN  IF backupRpcUrl \in evm.healthy
           THEN /\ evmProviders' = [evmProviders EXCEPT ![evm.chain] = backupRpcUrl]
                /\ evm' = [evm EXCEPT !.pc = "idle", !.result = "ok"]
           ELSE /\ UNCHANGED evmProviders
                /\ evm' = IF evm.i < Len(rpcUrls)
                          THEN [evm EXCEPT !.i = @ + 1]
                          ELSE [evm EXCEPT !.pc = "idle", !.result = "All RPC URLs failed"]
    /\ UNCHANGED evmFrame

EvmInit ==
    /\ evmProviders = [chain \in EvmChains |-> "-"]
    /\ evm = IdleEvm

EvmNext ==
    \/ \E chain \in EvmChains, url \in AllUrls : InitProviders(chain, url)
    \/ \E chain \in EvmChains, customRpcUrl \in CustomRpcUrls,
          answering \in SUBSET AllUrls, healthy \in SUBSET AllUrls :
            CheckEVMBalance(chain, customRpcUrl, answering, healthy)
    \/ EvmGetNetworkSettles
    \/ EvmGetBalanceSettles
    \/ BackupGetBalanceSettles

-----------------------------------------------------------------------------
(* Specifications *)

\* every service starts in the state its static initialisers give it
Loaded ==
    /\ now = Epoch
    /\ BatchInit
    /\ SmartInit
    /\ LimiterInit
    /\ RetryInit
    /\ ManyInit
    /\ WatcherInit
    /\ FanInit
    /\ RingInit
    /\ PortfolioInit
    /\ EvmInit
    /\ HandlerInit

InitBatch == service = "batch" /\ Loaded
InitSmart == service = "smart" /\ Loaded
InitCache == service \in {"batch", "smart"} /\ Loaded

CacheNext == BatchNext \/ SmartNext

SpecBatch == InitBatch /\ [][BatchNext]_vars

InitOrder == service = "order" /\ Loaded

SpecOrder == InitOrder /\ [][BatchNext]_vars

InitDrain == service = "drain" /\ Loaded

SpecDrain == InitDrain /\ [][DrainNext]_vars

InitSweep == service = "sweep" /\ Loaded

SpecSweep == InitSweep /\ [][SweepNext]_vars

InitPace == service = "pace" /\ Loaded

SpecPace == InitPace /\ [][BatchNext]_vars

SpecSmart == InitSmart /\ [][SmartNext]_vars

SpecCache == InitCache /\ [][CacheNext]_vars

InitLimiter == service = "limiter" /\ Loaded

SpecLimiter == InitLimiter /\ [][LimiterNext]_vars

InitFifo == service = "fifo" /\ Loaded

SpecFifo == InitFifo /\ [][FifoNext]_vars

InitLive == service = "live" /\ Loaded

SpecLive == InitLive /\ [][LiveNext]_vars /\ LiveFairness

InitRetry == service = "retry" /\ Loaded

SpecRetry == InitRetry /\ [][RetryNext]_vars

InitHandler == service = "handler" /\ Loaded

SpecHandler == InitHandler /\ [][HandlerNext]_vars

InitQuery == service = "query" /\ Loaded

SpecQuery == InitQuery /\ [][QueryNext]_vars

InitMany == service = "many" /\ Loaded

SpecMany == InitMany /\ [][ManyNext]_vars

InitWatcher == service = "watcher" /\ Loaded

SpecWatcher == InitWatcher /\ [][WatcherNext]_vars

InitPair == service = "pair" /\ Loaded

SpecPair == InitPair /\ [][PairNext]_vars

InitFan == service = "fanout" /\ Loaded

SpecFan == InitFan /\ [][FanNext]_vars

InitRing == service = "ring" /\ Loaded

SpecRing == InitRing /\ [][RingNext]_vars

InitPortfolio == service = "portfolio" /\ Loaded

SpecPortfolio == InitPortfolio /\ [][PortfolioNext]_vars

InitEvm == service = "evm" /\ Loaded

SpecEvm == InitEvm /\ [][EvmNext]_vars

-----------------------------------------------------------------------------
(* Claims about BatchBalanceChecker and SmartBalanceChecker *)

\* the step is a getBalance(key) call
IsGetBalance(key) ==
    /\ Len(calls') = Len(calls) + 1
    /\ calls'[Len(calls')].key = key

\* the getBalance step answered from the cache: the caller holds the cached
\* result, nothing was queued, no drain loop was started, no request was sent
ServedFromCache(key) ==
    /\ calls'[Len(calls')].status = "resolved"
    /\ calls'[Len(calls')].result = batchCache[key].result
    /\ UNCHANGED <<batchCache, batchQueue, batchProcessing, batchLoop, netCount>>

\* the getBalance step queued the call for the network: it is pending, its
\* item is in the chain's queue or in the batch being processed, and the
\* chain's drain loop is running
Requeried(key) ==
    LET id == Len(calls')
        ch == key[1]
        item == [key |-> key, call |-> id]
        InSeq(q) == \E j \in 1..Len(q) : q[j] = item
    IN /\ calls'[id].status = "pending"
       /\ batchProcessing'[ch]
       /\ InSeq(batchQueue'[ch]) \/ InSeq(batchLoop'[ch].batch)
       /\ ~batchProcessing[ch] => netCount'[key] = netCount[key] + 1

\* C1: a getBalance for a key that is still pending attaches to the pending
\* call: both callers receive the same result, and the network is asked only
\* on behalf of calls that found no pending call for their key.
C1_Dedup ==
    /\ \A c \in 1..Len(calls) : \A p \in calls[c].overlap :
          (calls[c].status = "resolved" /\ calls[p].status = "resolved")
              => calls[c].result = calls[p].result
    /\ \A k \in Keys :
          netCount[k] <= Cardinality({c \in 1..Len(calls) :
                             calls[c].key = k /\ ~calls[c].hit /\ calls[c].overlap = {}})

\* C2: a getBalance / checkBalance that finds a successful result stored less
\* than the success TTL ago (5 min, resp. 10 min) is answered from the cache
\* without a request, a queue entry or a drain loop; when the TTL has elapsed
\* the call goes to the network.
C2_CacheCoherence ==
    [][/\ \A k \in Keys :
            (IsGetBalance(k) /\ batchCache[k] # NoEntry /\ ~batchCache[k].result.error)
               => IF now - batchCache[k].timestamp < CACHE_TTL
                  THEN ServedFromCache(k)
                  ELSE Requeried(k)
       /\ \A k \in Keys :
            (Len(smartCalls') = Len(smartCalls) + 1 /\ smartCalls'[Len(smartCalls')].key = k
               /\ smartCache[k] # NoEntry)
               => IF now - smartCache[k].storedAt < SMART_CACHE_DURATION
                  THEN /\ smartCalls'[Len(smartCalls')].status = "resolved"
                       /\ smartCalls'[Len(smartCalls')].result = smartCache[k].result
                       /\ smartNet' = smartNet
                  ELSE /\ smartCalls'[Len(smartCalls')].status = "pending"
                       /\ smartNet'[k] = smartNet[k] + 1
      ]_vars

\* a cached success was served after some time, and after the TTL it was queried again
C2_Witness ==
    \/ /\ \E c \in 1..Len(calls) : calls[c].hit /\ calls[c].seen = <<"ok", "mid">>
       /\ \E c \in 1..Len(calls) : ~calls[c].hit /\ calls[c].seen = <<"ok", "old">>
    \/ /\ \E c \in 1..Len(smartCalls) : smartCalls[c].hit /\ smartCalls[c].seen = "fresh"
       /\ \E c \in 1..Len(smartCalls) : ~smartCalls[c].hit /\ smartCalls[c].seen = "old"

\* C3: a getBalance that finds a failed result stored less than 30 s ago is
\* answered with the cached failure and no request; 30 s or more after the
\* failure was stored the call goes to the network.
C3_ErrorTtl ==
    [][\A k \in Keys :
          (IsGetBalance(k) /\ batchCache[k] # NoEntry /\ batchCache[k].result.error)
             => IF now - batchCache[k].timestamp < ERROR_TTL
                THEN ServedFromCache(k)
                ELSE Requeried(k)
      ]_vars

\* a cached failure was served, and one older than 30 s but younger than 5 min was re-queried
C3_Witness ==
    /\ \E c \in 1..Len(calls) : calls[c].hit /\ calls[c].seen = <<"error", "fresh">>
    /\ \E c \in 1..Len(calls) : ~calls[c].hit /\ calls[c].seen = <<"error", "mid">>

\* request r starts executing in this step (processQueue lines 78-81)
Starts(r) ==
    /\ r \in DOMAIN requests'
    /\ requests'[r].status = "executing"
    /\ r \in DOMAIN requests => requests[r].status # "executing"

C5_Cooldown ==
    [][\A r \in DOMAIN requests' :
          Starts(r) =>
              LET a == requests'[r].api
              IN rlLastFail[a] # 0 => now' >= rlLastFail[a] + RATE_LIMIT_COOLDOWN]_vars

\* C5 witness: a request to an API is executing and started after the
\* rate-limit rejection of an earlier request to the same API
C5_Witness ==
    /\ service = "limiter"
    /\ \E r1, r2 \in DOMAIN requests :
          /\ r1 < r2
          /\ requests[r1].api = requests[r2].api
          /\ requests[r1].status = "rejected"
          /\ requests[r2].status = "executing"
          /\ rlLastFail[requests[r2].api] # 0
          /\ rlLastStart[requests[r2].api] > rlLastFail[requests[r2].api]

\* C7: queue cancellation.  A request that had been handed to queueRequest
\* and had not started executing when clearQueue ran never executes
\* afterwards.
C7_ClearedNeverRuns ==
    \A r \in DOMAIN requests :
        requests[r].atClear # "-" =>
            requests[r].status \notin {"executing", "failing", "resolved", "rejected"}

\* C6: fatal no-retry.  shouldRetry answers false whenever the error it is
\* handed is fatal, whatever the attempt number and the cap; and within a
\* checkBitcoinBalance query no request is sent to an endpoint after one of
\* its failures was classified CORS or NOT_FOUND.
C6_FatalNoRetry ==
    /\ policy.called /\ policy.error.isFatal => policy.result = FALSE
    /\ \A a \in 1..3 : btcAttempts[a].afterFatal = 0

\* C6 witness: shouldRetry was handed a fatal error below the cap, and a query
\* went on to its second endpoint after the first was classified fatal
C6_Witness ==
    /\ service = "retry"
    /\ policy.called /\ policy.error.isFatal
    /\ policy.attemptNumber < policy.maxAttempts
    /\ btcAttempts[1].fatal \in {"CORS", "NOT_FOUND"}
    /\ btc.i = 2
    /\ btc.pc = "request"

\* C8: no failure crosses the engine boundary as an exception.  The promise
\* returned by getBalancesBatch never rejects, whatever the provider calls do.
C8_NeverRejects ==
    many.status # "rejected"

\* C9: removal mid-flight discards the result.  While an id is removed and
\* not added again, it is not in the watch list, it has no entry in the
\* history map, and no alert was created for it since the removal.
C9_RemovedStaysGone ==
    /\ \A id \in removed : watchedAddresses[id] = 0 /\ balanceHistory[id] = <<>>
    /\ \A a \in DOMAIN alerts : ~alerts[a].whileRemoved

\* C10: removal stops the timer.  No timer-initiated check starts for an id
\* that is removed and not added again.
C10_NoFireAfterRemoval ==
    \A c \in DOMAIN checks :
        checks[c].origin = "timer" => ~checks[c].startedRemoved

-----------------------------------------------------------------------------
(* Claims about WalletWatcherService alerts and buffers *)

\* the step completes check c
Completes(c) ==
    /\ c \in DOMAIN checks
    /\ checks[c].status = "inflight"
    /\ checks'[c].status = "done"

\* the step pushed exactly one alert, for the entry just appended
OneAlertPushed(id, entry) ==
    /\ Len(alerts') = Len(alerts) + 1
    /\ SubSeq(alerts', 1, Len(alerts)) = alerts
    /\ alerts'[Len(alerts')].addressId = id
    /\ alerts'[Len(alerts')].changePercent = entry.changePercent
    /\ alerts'[Len(alerts')].type = IF entry.changePercent > 0 THEN "increase" ELSE "decrease"

-----------------------------------------------------------------------------
(* Claims about the GlobalRateLimiter worker *)

\* the requests a worker loop has taken from the queue and not yet settled
HeldByWorker == {r \in 1..Len(requests) :
                    requests[r].status \in {"waiting", "executing", "failing"}}

\* the requests whose execute() is in flight
Executing == {r \in 1..Len(requests) : requests[r].status = "executing"}

\* C12: the limiter has concurrency 1.  Whatever the interleaving of
\* queueRequest, clearQueue, resetAPI and resetAll, at most one worker loop
\* runs (isProcessing is set exactly while the one worker is active, and that
\* worker holds at most one dequeued request) and at most one execute() is
\* in flight.
C12_ConcurrencyOne ==
    service = "limiter" =>
        /\ Cardinality(Executing) <= 1
        /\ Cardinality(HeldByWorker) <= 1
        /\ rlProcessing <=> rlWorker.pc # "idle"
        /\ HeldByWorker = IF rlWorker.pc \in {"idle", "mandatory"} THEN {}
                          ELSE {rlWorker.req}
        /\ Executing = IF rlWorker.pc = "exec" THEN {rlWorker.req} ELSE {}

\* C12 witness: a request was queued while another one's execute() was in
\* flight, and it stayed in the queue.
C12_Witness ==
    /\ service = "limiter"
    /\ Cardinality(Executing) = 1
    /\ Len(rlQueue) > 0
    /\ rlProcessing

\* execute() was called for request r
Started(r) == requests[r].status \in {"executing", "failing", "resolved", "rejected"}

\* C13: first in, first out across providers.  Requests leave the queue in
\* the order they were queued, whatever their provider: a later request is
\* never dequeued while an earlier one is still queued, and never starts
\* while an earlier one is still waiting for its provider's window.
C13_Fifo ==
    service = "fifo" =>
        \A r1, r2 \in 1..Len(requests) :
            r1 < r2 =>
                /\ requests[r2].status \notin {"queued", "cancelled"}
                      => requests[r1].status # "queued"
                /\ Started(r2) => requests[r1].status \notin {"queued", "waiting"}

\* C13 witness: after a call to P, a second request to P waits for P's
\* window while a later request to Q, which was never called, is queued.
C13_Witness ==
    /\ service = "fifo"
    /\ Len(requests) = 3
    /\ requests[2].api = "P"
    /\ requests[2].status = "waiting"
    /\ rlWorker.pc = "apiWait"
    /\ requests[3].api = "Q"
    /\ requests[3].status = "queued"
    /\ lastApiCall["Q"] = 0

-----------------------------------------------------------------------------
(* Claims about the order of execution in BatchBalanceChecker *)

\* BalanceChecker.checkBalance was called for getBalance call c
BeganExecution(c) ==
    /\ ~calls[c].hit
    /\ \/ calls[c].status = "resolved"
       \/ \E ch \in Chains :
             /\ batchLoop[ch].pc = "call"
             /\ batchLoop[ch].batch[batchLoop[ch].i].call = c

\* C14: first in, first out per network.  Of two getBalance calls queued
\* for the same network, the one submitted later begins execution only after
\* the earlier one has, within a batch and from one batch to the next.
C14_NetworkFifo ==
    service = "order" =>
        \A c1, c2 \in 1..Len(calls) :
            (/\ c1 < c2
             /\ calls[c1].key[1] = calls[c2].key[1]
             /\ ~calls[c1].hit
             /\ BeganExecution(c2)) => BeganExecution(c1)

\* C14 witness: four calls were queued behind a running one, so that the
\* queue was cut into batches; the last of them, alone in the third batch,
\* is executing after all the others have been answered.
C14_Witness ==
    /\ service = "order"
    /\ Len(calls) = 5
    /\ \A c \in 1..5 : ~calls[c].hit
    /\ \A c \in 1..4 : calls[c].status = "resolved"
    /\ batchLoop["BTC"].pc = "call"
    /\ Len(batchLoop["BTC"].batch) = 1
    /\ batchLoop["BTC"].batch[1].call = 5

-----------------------------------------------------------------------------
(* Claims about the EVM batch queries *)

\* C15: bounded fan-out.  During a batch query on an EVM network, through
\* SmartBalanceChecker.batchCheckBalances or through
\* BatchBalanceChecker.getBalancesBatch, at most 10 provider getBalance
\* calls are in flight at the same time.
C15_BoundedFanOut ==
    service = "fanout" => Cardinality(fan.inFlight) <= 10

-----------------------------------------------------------------------------
(* Claims about the buffers and the export of WalletWatcherService *)

\* the last n elements of s
LastN(s, n) == IF Len(s) <= n THEN s ELSE SubSeq(s, Len(s) - n + 1, Len(s))

\* C16: bounded buffers.  After any sequence of checks each address's
\* history holds at most 100 entries and the alert list at most 50 alerts,
\* and each holds the most recent of everything appended to it, in the order
\* of appending: an append beyond the capacity evicts exactly the oldest.
C16_BoundedBuffers ==
    service = "ring" =>
        /\ \A id \in RingIds :
              /\ Len(ring.history[id]) <= 100
              /\ ring.history[id] = LastN(ring.log[id], 100)
        /\ Len(ring.alerts) <= 50
        /\ ring.alerts = LastN(ring.alertLog, 50)

\* C16 witness: two addresses were checked in turn until more than 100
\* entries had been appended to the history of each and more than 50 alerts
\* raised; both histories are full and so is the alert list.
C16_Witness ==
    /\ service = "ring"
    /\ ring.schedule = "pair"
    /\ \A id \in RingIds : Len(ring.log[id]) > 100 /\ Len(ring.history[id]) = 100
    /\ Len(ring.alertLog) > 50
    /\ Len(ring.alerts) = 50
    /\ ring.alerts[50].addressId # ring.alerts[49].addressId

\* the (timestamp, balance, changePercent) read back from a row of the
\* export by splitting it on commas
ParseRow(row) == <<ParseDate(row[1]), row[2], ParsePercent(row[4])>>

\* C19: CSV export round trip.  For a watched address with a non-empty
\* history, the text of exportHistoryToCsv(id) has, after the four lines of
\* the header block and the line of column headers, one row per entry of
\* getHistory(id) in the same order, and each row read back gives that
\* entry's timestamp, balance (as formatted in the entry) and changePercent.
C19_CsvRoundTrip ==
    (service = "ring" /\ csv # NoExport) =>
        LET history == ring.history[csv.id]
            rows == SubSeq(csv.text, 6, Len(csv.text))
        IN /\ Len(rows) = Len(history)
           /\ \A k \in 1..Len(history) :
                 ParseRow(rows[k]) = <<history[k].timestamp,
                                       history[k].formattedBalance,
                                       history[k].changePercent>>

-----------------------------------------------------------------------------
(* Claims about PortfolioService *)

\* the portfolio for which getPortfolioStats has answered, seen from its
\* wallets: the networks, the distinct tokens, the value on each network
Scored == service = "portfolio" /\ pf.stats # NoStats
Networks == {pf.wallets[i].chain : i \in 1..Len(pf.wallets)}
TokenKinds ==
    UNION {{<<pf.wallets[i].tokens[j].symbol, pf.wallets[i].tokens[j].chainId>> :
               j \in 1..Len(pf.wallets[i].tokens)} : i \in 1..Len(pf.wallets)}
WalletValue(i) ==
    pf.wallets[i].usdValue
    + SumOf([j \in 1..Len(pf.wallets[i].tokens) |-> pf.wallets[i].tokens[j].usdValue],
            1..Len(pf.wallets[i].tokens))
NetworkValue(ch) ==
    LET on == {i \in 1..Len(pf.wallets) : pf.wallets[i].chain = ch}
    IN SumOf([i \in on |-> WalletValue(i)], on)
PortfolioValue == SumOf([i \in 1..Len(pf.wallets) |-> WalletValue(i)], 1..Len(pf.wallets))
TopNetworkValue == CHOOSE x \in {NetworkValue(ch) : ch \in Networks} :
                       \A ch \in Networks : NetworkValue(ch) <= x

\* C17: the diversification score.  For a portfolio of positive total value
\* the score is round(min(8 x networks, 40) + min(3 x top tokens, 30)
\* + max(0, (1 - share of the top network) x 30)), the top tokens being at
\* most ten; and for every portfolio the score lies in 0..100.
C17_ScoreFormula ==
    Scored =>
        /\ PortfolioValue > 0 =>
              pf.stats.diversificationScore =
                  Round((Min(8 * Cardinality(Networks), 40)
                         + Min(3 * Min(Cardinality(TokenKinds), 10), 30)) * PortfolioValue
                        + Max(0, (PortfolioValue - TopNetworkValue) * 30),
                        PortfolioValue)
        /\ pf.stats.diversificationScore \in 0..100

\* C17 witness: six wallets on six networks, eleven tokens of which ten are
\* top tokens, the most valuable network being that of the last wallet; the
\* points for networks and for tokens are both capped.
C17_Witness ==
    /\ Scored
    /\ Cardinality(Networks) = 6
    /\ Cardinality(TokenKinds) = 11
    /\ Len(pf.summary.topTokens) = 10
    /\ pf.summary.chains[1].chain = 6
    /\ pf.summary.chains[1].totalValue = 3
    /\ PortfolioValue = 8
    /\ pf.stats.diversificationScore = 89

\* the portfolio has positive value, all its wallets are on one network and
\* they hold one distinct token
OneNetworkOneToken ==
    /\ Scored
    /\ PortfolioValue > 0
    /\ Cardinality(Networks) = 1
    /\ Cardinality(TokenKinds) = 1

\* C18 as stated: for a portfolio of positive value with all wallets on 1
\* network and 1 distinct token, the diversification score is 41 (8 + 3 + 30).
C18_ScoreExample41 ==
    OneNetworkOneToken => pf.stats.diversificationScore = 41

\* C18 amended: for a portfolio of positive value with all wallets on 1
\* network and 1 distinct token, the diversification score is 11 (8 + 3 + 0):
\* the one network holds the whole value, so evenness gives no points.
C18_ScoreExample ==
    OneNetworkOneToken => pf.stats.diversificationScore = 11

\* C18 witness: two wallets on the same network, one token, scored 11.
C18_Witness ==
    /\ OneNetworkOneToken
    /\ Len(pf.wallets) = 2
    /\ pf.stats.diversificationScore = 11

-----------------------------------------------------------------------------
(* Claims about the endpoints of BalanceChecker.checkBitcoinBalance *)

\* the endpoints the query has called
Tried == {a \in 1..3 : btcAttempts[a].tried}

\* the endpoints the query has left: after a fatal error, or when a failure
\* was not to be retried
Left == {a \in 1..3 : btcAttempts[a].fatal # "-" \/ btcAttempts[a].stopped}

\* C20: endpoint fail-over.  The endpoints are called in the order of the
\* list; an endpoint left after a fatal error or after its retries stopped
\* is followed by the next one; a success ends the query, no later endpoint
\* having been called; the failed result comes only when every endpoint of
\* the list has been called.
C20_FailOver ==
    (service = "retry" /\ btc.pc # "idle") =>
        /\ Tried = 1..btc.i
        /\ \A a \in Left :
              \/ btc.i > a
              \/ a = ApiCount(btc.chain) /\ btc.pc = "returned" /\ btc.result = "error"
        /\ btc.result = "ok" => btc.pc = "returned" /\ btc.i \notin Left
        /\ btc.result = "error" =>
              /\ Tried = 1..ApiCount(btc.chain)
              /\ Left = Tried

\* C20 witness: on mainnet the first endpoint failed fatally, the second
\* stopped being retried, and the third answered.
C20_Witness ==
    /\ service = "retry"
    /\ btc.chain = "BTC"
    /\ btcAttempts[1].fatal # "-"
    /\ btcAttempts[2].stopped
    /\ btc.i = 3
    /\ btc.result = "ok"

-----------------------------------------------------------------------------
(* Claims about BalanceChecker.checkEVMBalance *)

\* a step on which a checkEVMBalance call ends, one way or the other
CallEnds == evm.pc # "idle" /\ evm'.pc = "idle"

\* C21: when the cached known-good provider of a chain has failed the
\* getBalance call of a checkEVMBalance call, that provider is no longer the
\* cached entry of the chain when the call ends, whether a backup endpoint
\* answered or not.
C21_KnownGoodReset ==
    [][(CallEnds /\ evm'.cachedFailed # "-")
         => evmProviders'[evm.chain] # evm'.cachedFailed]_vars

\* C22: a checkEVMBalance call without a custom RPC URL fails only if no
\* configured endpoint of the chain is healthy during the call.
C22_FailOverComplete ==
    (evm.pc = "idle" /\ evm.customRpcUrl = "-" /\ evm.result \notin {"-", "ok"})
        => evm.healthy \cap Urls(evm.chain) = {}

-----------------------------------------------------------------------------
(* Claims about the drain loop of BatchBalanceChecker *)

\* a getBalance step that calls processBatch for the network
LoopStarts(ch) == Len(calls') > Len(calls) /\ batchLoop'[ch] # batchLoop[ch]

\* C23: one drain loop per network.  processBatch is started for a network
\* only while no loop of that network is active, isProcessing tells whether
\* one is, and whenever the network's queue holds an item a loop is active.
C23_OneDrainLoop ==
    [][\A ch \in Chains :
          /\ LoopStarts(ch) => (~batchProcessing[ch] /\ batchLoop[ch].pc = "idle")
          /\ batchProcessing'[ch] <=> batchLoop'[ch].pc # "idle"
          /\ Len(batchQueue'[ch]) > 0 => batchLoop'[ch].pc # "idle"]_vars

\* an item was queued while the loop of its network was serving another
\* item, both have been settled and the loop has ended
C23_Witness ==
    \E c1, c2 \in 1..Len(calls) :
        /\ c1 < c2
        /\ calls[c1].key = calls[c2].key
        /\ ~calls[c1].hit /\ ~calls[c2].hit
        /\ c1 \in calls[c2].overlap
        /\ calls[c1].status = "resolved" /\ calls[c2].status = "resolved"
        /\ batchLoop[calls[c1].key[1]].pc = "idle"
        /\ Len(batchQueue[calls[c1].key[1]]) = 0

\* the step settles the promise of call c
Settles(c) == calls[c].status = "pending" /\ calls'[c].status # "pending"

AttemptStarts(ch) == \E k \in AllKeys : k[1] = ch /\ netCount'[k] > netCount[k]

\* C25: the attempt cap of the drain loop.  An attempt is made only for an
\* item that is not settled yet; it is the first, second or third for that
\* item; retry 1 starts at least 1000 ms and retry 2 at least 2000 ms after
\* the attempt before it failed; an item is rejected only after its third
\* attempt has failed.
C25_AttemptCap ==
    [][\A ch \in Chains :
          /\ AttemptStarts(ch) =>
                LET lp == batchLoop'[ch]
                    item == lp.batch[lp.i]
                IN  /\ calls'[item.call].status = "pending"
                    /\ lp.retry + 1 <= 3
                    /\ lp.retry = 1 => (lp.failedAt > 0 /\ now - lp.failedAt >= 1000)
                    /\ lp.retry = 2 => (lp.failedAt > 0 /\ now - lp.failedAt >= 2000)
          /\ \A c \in 1..Len(calls) :
                (calls[c].key[1] = ch /\ Settles(c) /\ calls'[c].status = "rejected")
                    => (batchLoop[ch].retry = 2 /\ batchLoop[ch].batch[batchLoop[ch].i].call = c)]_vars

\* an item was given up after three attempts, and one was served at its
\* second or third attempt
C25_Witness ==
    \E c1, c2 \in 1..Len(calls) :
        /\ calls[c1].status = "rejected"
        /\ calls[c2].status = "resolved" /\ ~calls[c2].hit
        /\ netCount[calls[c1].key] >= 5

\* C26: drain pacing.  A batch holds at most 3 items; on one network the
\* next item of a batch starts at least 1500 ms after the item before it
\* was settled, and the first item of a batch starts at least 3000 ms after
\* the last item of the batch before it was settled.
C26_DrainPacing ==
    [][\A ch \in Chains :
          /\ Len(batchLoop'[ch].batch) <= 3
          /\ (AttemptStarts(ch) /\ batchLoop'[ch].retry = 0) =>
                IF batchLoop'[ch].i > 1
                THEN now - batchLoop[ch].finishedAt >= 1500
                ELSE batchLoop[ch].finishedAt > 0 => now - batchLoop[ch].finishedAt >= 3000]_vars

-----------------------------------------------------------------------------
(* Claims about the retry policy for rate-limited endpoints *)

\* C27: rate-limited failures are retried at most once.  Within one query
\* an endpoint whose requests keep failing with errors classified
\* RATE_LIMIT is called at most twice: no third request is sent to an
\* endpoint after two such failures.
C27_RateLimitRetriedOnce ==
    (btc.pc = "request" /\ btc.rateLimits >= 2) => btc.retryCount < 2

-----------------------------------------------------------------------------
(* Claims about the global pause of GlobalRateLimiter *)

\* q is an initial part of p
IsPrefix(q, p) == Len(q) <= Len(p) /\ SubSeq(p, 1, Len(q)) = q

\* C28: global pause after throttling.  No request to any provider starts
\* executing less than 120000 ms after a request was rejected with a
\* rate-limit error; while the worker sits out the cooldown the queue only
\* grows at its end, and when the cooldown is over the worker goes on with
\* the oldest queued request and leaves the others queued in their order.
C28_GlobalPause ==
    [][/\ \A r \in DOMAIN requests' :
            Starts(r) => \A a \in Apis :
                            rlLastFail[a] # 0 => now' >= rlLastFail[a] + 120000
       /\ rlWorker.pc = "cooldown" =>
            IF rlWorker'.pc = "cooldown"
            THEN IsPrefix(rlQueue, rlQueue')
            ELSE \/ rlQueue = <<>> /\ rlQueue' = <<>>
                 \/ /\ rlQueue # <<>>
                    /\ rlWorker'.req = Head(rlQueue)
                    /\ rlQueue' = Tail(rlQueue)]_vars

\* a request to one provider was rejected with a rate-limit error; the two
\* requests queued behind it sat out the cooldown; the older of them, a
\* request to another provider, is executing and the other is still queued
C28_Witness ==
    \E a \in Apis :
        /\ rlLastFail[a] # 0
        /\ Len(requests) = 3
        /\ requests[1].api = a /\ requests[1].status = "rejected"
        /\ requests[2].api # a /\ requests[2].status = "executing"
        /\ rlLastStart[requests[2].api] >= rlLastFail[a] + 120000
        /\ rlQueue = <<3>>

-----------------------------------------------------------------------------
(* Claims about the checks of WalletWatcherService *)

\* the checks of an id that are in flight
InFlight(id) ==
    {c \in DOMAIN checks : wObjs[checks[c].obj].id = id /\ checks[c].status = "inflight"}

\* C29: the monitor state machine.  Each watched entity is Idle or Checking:
\* at most one balance check of it is in flight at any time, whether the
\* checks come from addWatchAddress, from the timer or from the page.
C29_OneCheckInFlight ==
    \A id \in WatchIds : Cardinality(InFlight(id)) <= 1

\* C30: a failed check raises no alert.  The step in which a check ends with
\* a BalanceResult that carries an error leaves the alerts as they are.
C30_FailedCheckNoAlert ==
    [][\A c \in DOMAIN checks :
          (checks[c].status = "inflight" /\ checks'[c].status = "failed")
              => alerts' = alerts]_vars

-----------------------------------------------------------------------------
(* C31: the change recorded in a history entry *)

\* cp is (current - previous) / previous x 100 to the model's four decimals
IsChangeOf(cp, previous, current) ==
    /\ cp * previous <= (current - previous) * 100 * PercentScale
    /\ (current - previous) * 100 * PercentScale < (cp + 1) * previous

\* C31: every entry of an id's history carries as changePercent
\* (current - previous) / previous x 100 against the balance of the entry
\* appended just before it, and 0 when it is the first entry or that balance
\* is 0, in whatever order the checks of the id went past their await.
C31_HistoryChange ==
    \A id \in WatchIds :
        \A k \in DOMAIN balanceHistory[id] :
            LET h == balanceHistory[id]
            IN IF k = 1 \/ h[k - 1].balance = 0
               THEN h[k].changePercent = 0
               ELSE IsChangeOf(h[k].changePercent, h[k - 1].balance, h[k].balance)

\* C31 witness: two checks of one id overlapped and the one started last
\* went past its await first; the entry of the other records the change
\* against it.
C31_Witness ==
    /\ Len(checks) >= 2
    /\ checks[1].rank = 2
    /\ checks[2].rank = 1
    /\ wObjs[checks[1].obj].id = wObjs[checks[2].obj].id
    /\ LET h == balanceHistory[wObjs[checks[1].obj].id]
       IN /\ Len(h) = 2
          /\ h[1].balance # 0
          /\ h[2].changePercent # 0

-----------------------------------------------------------------------------
(* C32: the interval timers *)

\* the live timers whose callback checks an address of the id
TimersOf(id) == {t \in timers : wObjs[t.obj].id = id}

-----------------------------------------------------------------------------
(* C33: what removeWatchedAddress leaves alone *)

\* removeWatchedAddress(id) runs in this step: only it deletes a watch record
Removes(id) == watchedAddresses[id] # 0 /\ watchedAddresses'[id] = 0

\* the live timers of an id in the next state
TimersOfNext(id) == {t \in timers' : wObjs'[t.obj].id = id}

\* C33: removeWatchedAddress(id) changes only the timer, the watch record
\* and the history of id: the alerts (those of id among them), the alert
\* callbacks and the timer, watch record and history of every other id stay
\* as they were.
C33_RemovalFrame ==
    [][\A id \in PairIds :
          Removes(id) =>
              /\ alerts' = alerts
              /\ alertCallbacks' = alertCallbacks
              /\ wObjs' = wObjs
              /\ \A other \in PairIds \ {id} :
                    /\ checkIntervals'[other] = checkIntervals[other]
                    /\ TimersOfNext(other) = TimersOf(other)
                    /\ watchedAddresses'[other] = watchedAddresses[other]
                    /\ balanceHistory'[other] = balanceHistory[other]]_vars

\* C33 witness: an id with an alert of its own has been removed while
\* another id is watched, with a live timer and a history, and a callback is
\* registered.
C33_Witness ==
    \E id \in PairIds :
        /\ id \in removed
        /\ watchedAddresses[id] = 0
        /\ \E a \in DOMAIN alerts : alerts[a].addressId = id /\ ~alerts[a].whileRemoved
        /\ alertCallbacks # <<>>
        /\ \E other \in PairIds \ {id} :
              /\ watchedAddresses[other] # 0
              /\ TimersOf(other) # {}
              /\ balanceHistory[other] # <<>>

-----------------------------------------------------------------------------
(* C34: a cached success and the calls queued before it was cached *)

\* C34: while a successful result of a key is cached and within its TTL, no
\* BalanceChecker.checkBalance is issued for the key and the entry is not
\* replaced by a failed result.
C34_SuccessNotDowngraded ==
    [][\A k \in AllKeys :
          LET cached == batchCache[k]
          IN (cached # NoEntry /\ ~cached.result.error /\ CacheValid(cached, now)) =>
                 /\ netCount'[k] = netCount[k]
                 /\ batchCache'[k] # cached => ~batchCache'[k].result.error]_vars

-----------------------------------------------------------------------------
(* C35: every request is settled *)

\* the promise of the request is settled: by its own execution or by
\* clearQueue / resetAll
SettledStatuses == {"resolved", "rejected", "cancelled"}

\* C35 as stated: isProcessing is false whenever the queue is empty and no
\* execute() is in flight.
C35_IdleFlag ==
    (rlQueue = <<>> /\ Executing = {}) => ~rlProcessing

\* C35: every request handed to queueRequest is eventually settled, and
\* settled once: resolved or rejected by its own execution, or rejected by
\* clearQueue / resetAll.  A worker loop is running (isProcessing is set)
\* whenever a request is in the queue, and the flag is clear only when the
\* loop has ended.
C35_EverySettled ==
    /\ [](rlQueue # <<>> => rlProcessing)
    /\ [](~rlProcessing => rlWorker.pc = "idle")
    /\ [][\A r \in DOMAIN requests :
             requests[r].status \in SettledStatuses =>
                 requests'[r].status = requests[r].status]_vars
    /\ \A r \in 1..MaxLiveRequests :
          (Len(requests) >= r) ~>
              (Len(requests) >= r /\ requests[r].status \in SettledStatuses)

\* C35 witness: a request queued while the worker slept in the cooldown of
\* a throttled request has been resolved, the throttled one rejected, and
\* the loop has ended.
C35_Witness ==
    /\ Len(requests) >= 2
    /\ requests[1].status = "rejected"
    /\ rlLastFail[requests[1].api] # 0
    /\ requests[2].during = "cooldown"
    /\ requests[2].status = "resolved"
    /\ ~rlProcessing

-----------------------------------------------------------------------------
(* C36: the sweep and the validity test of getBalance *)

\* C36: a sweep removes exactly the entries getBalance treats as absent:
\* after clearExpiredCache every remaining entry is valid (getCacheStats
\* reports expired = 0), no entry getBalance would serve is removed, and
\* getCacheStats reports total = valid + expired.
C36_SweepAgreesWithGet ==
    LET swept == clearExpiredCache(batchCache, now)
        stats == getCacheStats(swept, now)
    IN /\ stats.expired = 0
       /\ stats.total = stats.valid + stats.expired
       /\ \A k \in AllKeys :
             (batchCache[k] # NoEntry /\ CacheValid(batchCache[k], now)) =>
                 swept[k] = batchCache[k]

-----------------------------------------------------------------------------
(* C38: retries of the transient kinds *)

\* C38: for a non-fatal NETWORK, SERVER or UNKNOWN error shouldRetry is true
\* exactly when attemptNumber < maxAttempts.
C38_RetryUpToCap ==
    (/\ policy # NoPolicyCall
     /\ ~policy.error.isFatal
     /\ policy.error.type \in {"NETWORK", "SERVER", "UNKNOWN"}) =>
        (policy.result <=> policy.attemptNumber < policy.maxAttempts)

-----------------------------------------------------------------------------
(* C37: the classification of a failure *)

\* the rules of analyzeError in the order of the claim
RuleOrder == <<"CORS", "RATE_LIMIT", "NOT_FOUND", "NETWORK", "SERVER">>

\* the failure e matches the rule of the kind
RuleMatches(kind, e) ==
    CASE kind = "CORS" -> e.msg = "cors"
      [] kind = "RATE_LIMIT" -> e.code = 429 \/ e.msg = "rate limit"
      [] kind = "NOT_FOUND" -> e.code = 404 \/ e.msg = "not found"
      [] kind = "NETWORK" -> e.code = NetworkErrorCode \/ e.msg = "timeout"
      [] kind = "SERVER" -> e.code \in 500..599

\* the kind of the first rule e matches, UNKNOWN when it matches none
FirstMatchingKind(e) ==
    LET matching == {i \in DOMAIN RuleOrder : RuleMatches(RuleOrder[i], e)}
    IN IF matching = {} THEN "UNKNOWN"
       ELSE RuleOrder[CHOOSE i \in matching : \A j \in matching : i <= j]

\* the seconds a header that states seconds stands for
SecondsOf == [text \in {"0", "30", "45"} |-> IF text = "0" THEN 0
                                             ELSE IF text = "30" THEN 30 ELSE 45]

\* C37: analyzeError gives a failure the kind of the first rule it matches,
\* in the order CORS, RATE_LIMIT, NOT_FOUND, NETWORK, SERVER, else UNKNOWN;
\* isFatal is true exactly for CORS and NOT_FOUND; a RATE_LIMIT result
\* carries as retryAfter the seconds of the provider's hint (retry-after,
\* else x-ratelimit-reset), or 60 when there is no hint.
C37_ClassificationPriority ==
    handler.fn = "analyzeError" =>
        LET e == handler.raw
            r == handler.result
            hint == IF e.headers.retryAfter # "-" THEN e.headers.retryAfter
                    ELSE e.headers.reset
        IN /\ r.type = FirstMatchingKind(e)
           /\ r.isFatal <=> r.type \in {"CORS", "NOT_FOUND"}
           /\ r.type = "RATE_LIMIT" =>
                 /\ r.retryAfter >= 0
                 /\ hint = "-" => r.retryAfter = 60
                 /\ hint \in DOMAIN SecondsOf => r.retryAfter = SecondsOf[hint]

-----------------------------------------------------------------------------
(* C40: the delay before a retry *)

\* the largest delay of a kind: none is set for RATE_LIMIT
DelayCap(error) ==
    CASE error.type = "NETWORK" -> 10000
      [] error.type = "SERVER" -> 30000
      [] error.type = "UNKNOWN" -> 3000
      [] error.type \in {"CORS", "NOT_FOUND"} -> 0
      [] OTHER -> error.retryAfter * 1000

\* C40: getRetryDelay returns retryAfter seconds, in ms, for RATE_LIMIT,
\* min(1000 x 2^n, 10000) for NETWORK, min(2000 x 2^n, 30000) for SERVER, 0
\* for CORS and NOT_FOUND and 3000 for UNKNOWN; the delay does not decrease
\* with n and does not exceed the cap of its kind.
C40_RetryDelayPolicy ==
    (handler.fn = "getRetryDelay" /\ handler.error.retryAfter # NaN) =>
        LET error == handler.error
            n == handler.attemptNumber
        IN /\ handler.result =
                 CASE error.type = "RATE_LIMIT" -> error.retryAfter * 1000
                   [] error.type = "NETWORK" -> Min(1000 * Pow2(n), 10000)
                   [] error.type = "SERVER" -> Min(2000 * Pow2(n), 30000)
                   [] error.type \in {"CORS", "NOT_FOUND"} -> 0
                   [] OTHER -> 3000
           /\ handler.result <= getRetryDelay(error, n + 1)
           /\ handler.result <= DelayCap(error)

-----------------------------------------------------------------------------
(* C39: the wait before a dequeued request is executed *)

\* the two waits of the request the worker holds, evaluated at the time
\* `at` it was dequeued (no call is recorded while the worker waits)
WaitGlobal == GlobalWaitTime(rlWorker.at, lastApiCall)
WaitProvider == ApiWaitTime(rlWorker.at, lastApiCall[requests[rlWorker.req].api])

\* C39: a request dequeued at `at` is executed after a wait of
\* max(0, waitGlobal, waitProvider): when the worker sleeps in its last wait
\* before the execution, the global wait before it having ended on time, it
\* wakes at `at` + max(0, waitGlobal, waitProvider).
C39_WaitIsMax ==
    (/\ service = "fifo"
     /\ rlWorker.pc = "apiWait"
     /\ rlWorker.wakeAt - WaitProvider = rlWorker.at + WaitGlobal) =>
        rlWorker.wakeAt = rlWorker.at + Max(0, Max(WaitGlobal, WaitProvider))

====
